---------------------------- MODULE Spec2Model ----------------------------
(***************************************************************************)
(* Multi-provider AI request gateway of Ainqa_EBM_Service_V1:              *)
(*   - the error classifier      (src/src/utils/errorClassification.ts)    *)
(*   - the fallback orchestrator (src/src/utils/fallbackWrapper.ts)        *)
(*   - the provider registry     (src/src/lib/providers/providerRegistry.ts)*)
(*   - the gateways              (src/src/services/embedding.ts, llm.ts)   *)
(*                                                                         *)
(* JavaScript strings are modelled as sequences of one-character strings,  *)
(* so that toLowerCase() and includes() are computed, not assumed.         *)
(***************************************************************************)
EXTENDS Integers, Sequences, FiniteSets, TLC

VARIABLES
    clsInput,       \* classifier harness: the value handed to classifyError
    clsOutput,      \* classifier harness: the ErrorClassification returned, or None
    clsImmediate,   \* classifier harness: result of shouldFallbackImmediately, or None
    pc,             \* per call: position of the call in withFallback / the gateway
    api,            \* per call: entry point ("withFallback" or a gateway method)
    ctorEnableFallback, \* per call: config.enableFallback given to the gateway's constructor
    gwFallback,     \* per call: this.enableFallback of the gateway instance
    modelConfig,    \* per call: the ModelConfig argument of the gateway method
    config,         \* per call: the FallbackConfig handed to withFallback
    primaryArgs,    \* per call: the maxRetries arguments primaryOperation was invoked with
    fallbackArgs,   \* per call: the maxRetries arguments fallbackOperation was invoked with
    primaryState,   \* per call: promise state of primaryOperation
    fallbackState,  \* per call: promise state of fallbackOperation
    primaryError,   \* per call: the value caught at fallbackWrapper.ts:59, or None
    fallbackError,  \* per call: the value caught at fallbackWrapper.ts:99, or None
    classifications,\* per call: the results of the classifyError calls made, in order
    branch,         \* per call: the return/throw statement withFallback left by
    outcome,        \* per call: what withFallback returned or threw
    resolved,       \* per call: the ModelConfigs resolved through the registry, in order
    providerCalls,  \* per call: the provider (network) calls issued, in order
    options,        \* per call: the options argument of the gateway method
    onErrorCalls,   \* per call: the values options.onError was invoked with
    gwCaught,       \* per call: the value caught by the gateway method's catch block
    gwOutcome,      \* per call: what the gateway method returned or threw
    avgInput,       \* averageEmbeddings harness: the embeddings argument, as it is now
    avgResult,      \* averageEmbeddings harness: << >>, or what the call returned or threw
    authApiKey,     \* apiKeyAuth: process.env.API_KEY, << >> when unset, else << string >>
    authHeader,     \* apiKeyAuth: the Authorization header, << >> when absent, else << string >>
    authPc,         \* apiKeyAuth: "idle", "next" (awaiting next()), "done"
    authResult,     \* apiKeyAuth: << >>, or how the middleware ended
    driver,         \* Neo4j client: this.driver, NoDriver for null
    isConnected,    \* Neo4j client: this.isConnected
    connectionAttempts, \* Neo4j client: this.connectionAttempts
    neoTask         \* Neo4j client, per task: the call in progress and its locals

vars == << clsInput, clsOutput, clsImmediate, pc, api, ctorEnableFallback,
           gwFallback, modelConfig,
           config, primaryArgs, fallbackArgs, primaryState, fallbackState,
           primaryError, fallbackError, classifications, branch, outcome,
           resolved, providerCalls, options, onErrorCalls, gwCaught, gwOutcome,
           avgInput, avgResult, authApiKey, authHeader, authPc, authResult,
           driver, isConnected, connectionAttempts, neoTask >>

\* the variables of the other harnesses and components
avgVars == << avgInput, avgResult >>
authVars == << authApiKey, authHeader, authPc, authResult >>
neoVars == << driver, isConnected, connectionAttempts, neoTask >>
otherVars == << avgVars, authVars, neoVars >>

\* what the calls of withFallback and of the gateway methods leave alone
clsVars == << clsInput, clsOutput, clsImmediate, otherVars >>

callVars == << pc, api, ctorEnableFallback, gwFallback, modelConfig, config,
               primaryArgs, fallbackArgs,
               primaryState, fallbackState, primaryError, fallbackError,
               classifications, branch, outcome, resolved, providerCalls, options,
               onErrorCalls, gwCaught, gwOutcome >>

None == "none"

(***************************************************************************)
(* Bounds of the model.                                                    *)
(***************************************************************************)
\* HTTP statuses the classifier harness enumerates: StatusLo..StatusHi
StatusLo == 395
StatusHi == 605
\* retry budgets a direct caller of withFallback may put in a FallbackConfig
MaxRetryBudget == 2
\* number of vectors handed to averageEmbeddings: 0..MaxVectors
MaxVectors == 3
\* this.connectionAttempts of the Neo4j client is followed up to this value
MaxConnectionAttempts == 4
\* options.retries of executeQuery: absent, or 0..MaxRetriesOption
MaxRetriesOption == 1

(***************************************************************************)
(* Strings.                                                                *)
(***************************************************************************)
UpperChars == <<"A","B","C","D","E","F","G","H","I","J","K","L","M",
                "N","O","P","Q","R","S","T","U","V","W","X","Y","Z">>
LowerChars == <<"a","b","c","d","e","f","g","h","i","j","k","l","m",
                "n","o","p","q","r","s","t","u","v","w","x","y","z">>

\* String.prototype.toLowerCase on one character
LowerChar(ch) ==
    IF \E i \in 1..Len(UpperChars) : UpperChars[i] = ch
    THEN LowerChars[CHOOSE i \in 1..Len(UpperChars) : UpperChars[i] = ch]
    ELSE ch

\* String.prototype.toLowerCase
ToLowerCase(s) == [i \in 1..Len(s) |-> LowerChar(s[i])]

\* String.prototype.includes
Includes(s, k) ==
    \E i \in 0..(Len(s) - Len(k)) : SubSeq(s, i + 1, i + Len(k)) = k

\* keywords of classifyError
KwTimeout        == <<"t","i","m","e","o","u","t">>
KwNetwork        == <<"n","e","t","w","o","r","k">>
KwEconnreset     == <<"e","c","o","n","n","r","e","s","e","t">>
KwConnection     == <<"c","o","n","n","e","c","t","i","o","n">>
KwApiKey         == <<"a","p","i"," ","k","e","y">>
KwUnauthorized   == <<"u","n","a","u","t","h","o","r","i","z","e","d">>
KwAuthentication == <<"a","u","t","h","e","n","t","i","c","a","t","i","o","n">>
KwModel          == <<"m","o","d","e","l">>
KwNotFound       == <<"n","o","t"," ","f","o","u","n","d">>
KwUnavailable    == <<"u","n","a","v","a","i","l","a","b","l","e">>
KwRateLimit      == <<"r","a","t","e"," ","l","i","m","i","t">>
KwQuotaExceeded  == <<"q","u","o","t","a"," ","e","x","c","e","e","d","e","d">>

(***************************************************************************)
(* JavaScript values that can be thrown.                                   *)
(*   type        typeof/falsiness: "nullish" (null, undefined),            *)
(*               "string" (a thrown primitive), "object"                   *)
(*   isError     value instanceof Error                                    *)
(*   cls         constructor name of an Error                              *)
(*   message     error.message                                             *)
(*   hasResponse "response" in value                                       *)
(*   response    [truthy, isResponse, statusIsNumber, status]              *)
(*   origin      the operation that threw the object: object identity      *)
(*   provider    the provider property (gateway errors)                    *)
(*   cause       <<>> or <<the wrapped value>> (gateway errors)            *)
(***************************************************************************)
\* error.response is undefined or null
NoResponse ==
    [truthy |-> FALSE, isResponse |-> FALSE, statusIsNumber |-> FALSE, status |-> 0]

\* error.response is a fetch Response with a numeric status
HttpResponse(status) ==
    [truthy |-> TRUE, isResponse |-> TRUE, statusIsNumber |-> TRUE, status |-> status]

\* error.response is an object whose status is not a number
OddResponse ==
    [truthy |-> TRUE, isResponse |-> FALSE, statusIsNumber |-> FALSE, status |-> 0]

Thrown(type, isError, cls, message, hasResponse, response, origin) ==
    [type |-> type, isError |-> isError, cls |-> cls, message |-> message,
     hasResponse |-> hasResponse, response |-> response, origin |-> origin,
     provider |-> None, cause |-> << >>]

\* new Error(message), thrown by origin
PlainError(message, origin) ==
    Thrown("object", TRUE, "Error", message, FALSE, NoResponse, origin)

\* an Error carrying the HTTP response of a failed provider call
ApiError(message, status, origin) ==
    Thrown("object", TRUE, "Error", message, TRUE, HttpResponse(status), origin)

(***************************************************************************)
(* classifyError, errorClassification.ts:24-137                            *)
(***************************************************************************)
Classification(shouldFallback, errorType, text, status) ==
    [shouldFallback |-> shouldFallback, errorType |-> errorType,
     description |-> [text |-> text, status |-> status]]

\* "no rule returned": the function falls through to the next block
NoClassification == Classification(FALSE, "none", "", 0)

\* lines 26-28: the error carries a numeric HTTP response status
HasNumericStatus(error) ==
    /\ error.type = "object"
    /\ error.hasResponse
    /\ error.response.truthy
    /\ error.response.statusIsNumber

\* mutant: the 5xx range test written with the wrong comparisons
ClassifyStatusOffByOne(status) ==
    IF status > 500 /\ status <= 600
    THEN Classification(TRUE, "transient", "Server error ${status} - transient issue", status)
    ELSE IF status = 429
    THEN Classification(TRUE, "rate_limit", "Rate limit exceeded", 0)
    ELSE IF status = 401 \/ status = 403
    THEN Classification(TRUE, "auth", "Authentication/authorization error", 0)
    ELSE IF status = 400
    THEN Classification(TRUE, "permanent", "Bad request - likely permanent issue", 0)
    ELSE IF status = 404
    THEN Classification(TRUE, "model_unavailable", "Model not found or unavailable", 0)
    ELSE NoClassification

\* mutant: a bad request is classified as not worth a fallback
ClassifyStatusPermanentNoFallback(status) ==
    IF status >= 500 /\ status < 600
    THEN Classification(TRUE, "transient", "Server error ${status} - transient issue", status)
    ELSE IF status = 429
    THEN Classification(TRUE, "rate_limit", "Rate limit exceeded", 0)
    ELSE IF status = 401 \/ status = 403
    THEN Classification(TRUE, "auth", "Authentication/authorization error", 0)
    ELSE IF status = 400
    THEN Classification(FALSE, "permanent", "Bad request - likely permanent issue", 0)
    ELSE IF status = 404
    THEN Classification(TRUE, "model_unavailable", "Model not found or unavailable", 0)
    ELSE NoClassification

\* lines 29-74: the five status rules, in order
ClassifyStatus(status) ==
    IF status >= 500 /\ status < 600
    THEN Classification(TRUE, "transient", "Server error ${status} - transient issue", status)
    ELSE IF status = 429
    THEN Classification(TRUE, "rate_limit", "Rate limit exceeded", 0)
    ELSE IF status = 401 \/ status = 403
    THEN Classification(TRUE, "auth", "Authentication/authorization error", 0)
    ELSE IF status = 400
    THEN Classification(TRUE, "permanent", "Bad request - likely permanent issue", 0)
    ELSE IF status = 404
    THEN Classification(TRUE, "model_unavailable", "Model not found or unavailable", 0)
    ELSE NoClassification

\* mutant: the rate-limit rule is tried before the other message rules
ClassifyMessageRateFirst(msg) ==
    LET message == ToLowerCase(msg) IN
    IF Includes(message, KwRateLimit) \/ Includes(message, KwQuotaExceeded)
    THEN Classification(TRUE, "rate_limit", "Rate limit or quota exceeded", 0)
    ELSE IF \/ Includes(message, KwTimeout)
            \/ Includes(message, KwNetwork)
            \/ Includes(message, KwEconnreset)
            \/ Includes(message, KwConnection)
    THEN Classification(TRUE, "transient", "Network/connection error", 0)
    ELSE IF \/ Includes(message, KwApiKey)
            \/ Includes(message, KwUnauthorized)
            \/ Includes(message, KwAuthentication)
    THEN Classification(TRUE, "auth", "API key or authentication error", 0)
    ELSE IF /\ Includes(message, KwModel)
            /\ (Includes(message, KwNotFound) \/ Includes(message, KwUnavailable))
    THEN Classification(TRUE, "model_unavailable", "Model not available", 0)
    ELSE NoClassification

\* lines 80-128: the four message rules, in order
ClassifyMessage(msg) ==
    LET message == ToLowerCase(msg) IN
    IF \/ Includes(message, KwTimeout)
       \/ Includes(message, KwNetwork)
       \/ Includes(message, KwEconnreset)
       \/ Includes(message, KwConnection)
    THEN Classification(TRUE, "transient", "Network/connection error", 0)
    ELSE IF \/ Includes(message, KwApiKey)
            \/ Includes(message, KwUnauthorized)
            \/ Includes(message, KwAuthentication)
    THEN Classification(TRUE, "auth", "API key or authentication error", 0)
    ELSE IF /\ Includes(message, KwModel)
            /\ (Includes(message, KwNotFound) \/ Includes(message, KwUnavailable))
    THEN Classification(TRUE, "model_unavailable", "Model not available", 0)
    ELSE IF Includes(message, KwRateLimit) \/ Includes(message, KwQuotaExceeded)
    THEN Classification(TRUE, "rate_limit", "Rate limit or quota exceeded", 0)
    ELSE NoClassification

\* mutant: an unrecognised error is classified as not worth a fallback
DefaultClassificationNoFallback ==
    Classification(FALSE, "transient", "Unknown error - treating as transient", 0)

\* lines 131-136
DefaultClassification ==
    Classification(TRUE, "transient", "Unknown error - treating as transient", 0)

\* mutant: the message rules are tried only for a value without a numeric
\* status
classifyErrorStatusExclusive(error) ==
    IF HasNumericStatus(error)
    THEN IF ClassifyStatus(error.response.status).errorType # "none"
         THEN ClassifyStatus(error.response.status)
         ELSE DefaultClassification
    ELSE IF /\ error.type = "object" /\ error.isError
            /\ ClassifyMessage(error.message).errorType # "none"
         THEN ClassifyMessage(error.message)
         ELSE DefaultClassification

classifyError(error) ==
    LET byStatus == IF HasNumericStatus(error)
                    THEN ClassifyStatus(error.response.status)
                    ELSE NoClassification
        byMessage == IF error.type = "object" /\ error.isError
                     THEN ClassifyMessage(error.message)
                     ELSE NoClassification
    IN  IF byStatus.errorType # "none" THEN byStatus
        ELSE IF byMessage.errorType # "none" THEN byMessage
        ELSE DefaultClassification

\* line 26: `"response" in error` is evaluated only behind
\* `error && typeof error === "object"`
ReadsResponse(error) == error.type = "object"

\* mutant: response.status is read without the `response &&` guard
ReadsStatusUnguarded(error) ==
    /\ ReadsResponse(error)
    /\ error.hasResponse

\* lines 27-28: `response.status` is read only behind `response &&`
ReadsStatus(error) ==
    /\ ReadsResponse(error)
    /\ error.hasResponse
    /\ error.response.truthy

\* the evaluation of classifyError raises a TypeError: the `in` operator
\* applied to a value that is not an object, or a property read of a
\* null or undefined response
classifyErrorThrows(error) ==
    \/ ReadsResponse(error) /\ error.type # "object"
    \/ ReadsStatus(error) /\ ~error.response.truthy

\* what a caller of classifyError observes in place of a classification
\* when the evaluation throws
ThrewTypeError == Classification(FALSE, "TypeError", "", 0)

\* a call of classifyError: the classification returned, or the throw
classifyErrorCall(error) ==
    IF classifyErrorThrows(error) THEN ThrewTypeError ELSE classifyError(error)

\* mutant: "permanent" is missing from the list
shouldFallbackImmediatelyWithoutPermanent(error) ==
    LET classification == classifyError(error) IN
    \/ classification.errorType = "auth"
    \/ classification.errorType = "rate_limit"
    \/ classification.errorType = "model_unavailable"

\* errorClassification.ts:143-153
shouldFallbackImmediately(error) ==
    LET classification == classifyError(error) IN
    \/ classification.errorType = "auth"
    \/ classification.errorType = "rate_limit"
    \/ classification.errorType = "permanent"
    \/ classification.errorType = "model_unavailable"

(***************************************************************************)
(* Error messages the environment produces.                                *)
(***************************************************************************)
MsgEmpty        == << >>
MsgBoom         == <<"b","o","o","m">>
MsgConnTimeout  == <<"C","o","n","n","e","c","t","i","o","n"," ","t","i","m","e","o","u","t">>
MsgEconnreset   == <<"r","e","a","d"," ","E","C","O","N","N","R","E","S","E","T">>
MsgNetwork      == <<"N","e","t","w","o","r","k"," ","r","e","q","u","e","s","t"," ","f","a","i","l","e","d">>
MsgApiKey       == <<"I","n","v","a","l","i","d"," ","A","P","I"," ","k","e","y">>
MsgUnauthRate   == <<"U","n","a","u","t","h","o","r","i","z","e","d",":"," ","r","a","t","e"," ","l","i","m","i","t">>
MsgAuthFailed   == <<"A","u","t","h","e","n","t","i","c","a","t","i","o","n"," ","f","a","i","l","e","d">>
MsgModelMissing == <<"M","o","d","e","l"," ","n","o","t"," ","f","o","u","n","d">>
MsgNetModel     == <<"n","e","t","w","o","r","k"," ","m","o","d","e","l"," ","u","n","a","v","a","i","l","a","b","l","e">>
MsgModelUnavail == <<"T","h","e"," ","m","o","d","e","l"," ","i","s"," ","c","u","r","r","e","n","t","l","y"," ","u","n","a","v","a","i","l","a","b","l","e">>
MsgRateLimit    == <<"R","a","t","e"," ","l","i","m","i","t"," ","e","x","c","e","e","d","e","d">>
MsgQuotaModel   == <<"Q","u","o","t","a"," ","e","x","c","e","e","d","e","d"," ","f","o","r"," ","m","o","d","e","l">>
MsgModelOnly    == <<"m","o","d","e","l">>
MsgNotFoundOnly == <<"n","o","t"," ","f","o","u","n","d">>

MsgPool ==
    { MsgEmpty, MsgBoom, MsgConnTimeout, MsgEconnreset, MsgNetwork, MsgApiKey,
      MsgUnauthRate, MsgAuthFailed, MsgModelMissing, MsgNetModel, MsgModelUnavail,
      MsgRateLimit, MsgQuotaModel, MsgModelOnly, MsgNotFoundOnly }

\* values that are not Error instances: null/undefined, a primitive, plain objects
NonErrorValues(origin) ==
    { Thrown("nullish", FALSE, "none", MsgEmpty, FALSE, NoResponse, origin),
      Thrown("string", FALSE, "none", MsgEmpty, FALSE, NoResponse, origin),
      Thrown("object", FALSE, "Object", MsgEmpty, FALSE, NoResponse, origin),
      Thrown("object", FALSE, "Object", MsgEmpty, TRUE, NoResponse, origin),
      Thrown("object", FALSE, "Object", MsgEmpty, TRUE, OddResponse, origin) }

\* every shape of value over the statuses and messages given
ErrorValues(statuses, messages, origin) ==
    NonErrorValues(origin)
    \cup { Thrown("object", FALSE, "Object", MsgEmpty, TRUE, HttpResponse(s), origin) :
             s \in statuses }
    \cup { PlainError(m, origin) : m \in messages }
    \cup { Thrown("object", TRUE, "Error", m, TRUE, r, origin) :
             m \in messages, r \in {NoResponse, OddResponse} }
    \cup { ApiError(m, s, origin) : m \in messages, s \in statuses }

(***************************************************************************)
(* Harness applying the pure functions of errorClassification.ts to every  *)
(* input of ClassifierInputs.                                              *)
(***************************************************************************)
ClassifierInputs == ErrorValues(StatusLo..StatusHi, MsgPool, "caller")

ClsClassify ==
    /\ clsOutput = << >>
    /\ clsOutput' = << classifyErrorCall(clsInput) >>
    /\ UNCHANGED << clsInput, clsImmediate, otherVars >>
    /\ UNCHANGED callVars

ClsImmediate ==
    /\ clsImmediate = << >>
    /\ clsImmediate' = << shouldFallbackImmediately(clsInput) >>
    /\ UNCHANGED << clsInput, clsOutput, otherVars >>
    /\ UNCHANGED callVars

(***************************************************************************)
(* Provider registry, providerRegistry.ts                                  *)
(***************************************************************************)
\* LLMProviderType | EmbeddingProviderType, lines 13-20
Providers == {"e2e", "openai", "anthropic", "deepinfra", "google"}

\* providers registered with createProviderRegistry, lines 115-141
RegisteredProviders == {"e2e", "openai", "anthropic", "deepinfra", "google"}

ProviderChars(p) ==
    CASE p = "e2e"       -> <<"e","2","e">>
      [] p = "openai"    -> <<"o","p","e","n","a","i">>
      [] p = "anthropic" -> <<"a","n","t","h","r","o","p","i","c">>
      [] p = "deepinfra" -> <<"d","e","e","p","i","n","f","r","a">>
      [] p = "google"    -> <<"g","o","o","g","l","e">>

ModelCfg(provider, modelId) == [provider |-> provider, modelId |-> modelId]

\* lines 49-82
DEFAULT_MODELS ==
    [llm |->
        [primary  |-> ModelCfg("google", "gemini-2.5-flash"),
         fallback |-> ModelCfg("deepinfra", "meta-llama/Meta-Llama-3.1-70B-Instruct")],
     embedding |->
        [primary  |-> ModelCfg("openai", "text-embedding-3-large"),
         fallback |-> ModelCfg("google", "text-embedding-004")]]

MsgE2ENoEmbedding ==
    <<"E","2","E"," ","N","e","t","w","o","r","k","s"," ","d","o","e","s","n","'",
      "t"," ","s","u","p","p","o","r","t"," ","e","m","b","e","d","d","i","n","g",
      " ","m","o","d","e","l","s"," ","y","e","t","."," ","U","s","e"," ","O","p",
      "e","n","A","I",","," ","G","o","o","g","l","e",","," ","o","r"," ","D","e",
      "e","p","I","n","f","r","a"," ","i","n","s","t","e","a","d",".">>
MsgUnknownEmbedding ==
    <<"U","n","k","n","o","w","n"," ","e","m","b","e","d","d","i","n","g"," ","p",
      "r","o","v","i","d","e","r",":"," ">>
MsgNoSuchProvider ==
    <<"N","o"," ","s","u","c","h"," ","p","r","o","v","i","d","e","r",":"," ">>

\* result of a registry lookup: a model handle, or the value thrown
Handle(kind, cfg) ==
    [threw |-> FALSE,
     handle |-> << [kind |-> kind, provider |-> cfg.provider, modelId |-> cfg.modelId] >>,
     error |-> << >>]
Throws(e) == [threw |-> TRUE, handle |-> << >>, error |-> << e >>]

\* mutant: the e2e case is missing, so the lookup is left to the provider
getEmbeddingModelWithoutE2ECase(cfg) ==
    CASE cfg.provider \in {"e2e", "openai", "google", "deepinfra"} ->
           Handle("textEmbeddingModel", cfg)
      [] OTHER ->
           Throws(PlainError(MsgUnknownEmbedding \o ProviderChars(cfg.provider),
                             "registry"))

\* ProviderRegistry.getEmbeddingModel, lines 156-173
getEmbeddingModel(cfg) ==
    CASE cfg.provider = "e2e" ->
           Throws(PlainError(MsgE2ENoEmbedding, "registry"))
      [] cfg.provider \in {"openai", "google", "deepinfra"} ->
           Handle("textEmbeddingModel", cfg)
      [] OTHER ->
           Throws(PlainError(MsgUnknownEmbedding \o ProviderChars(cfg.provider),
                             "registry"))

\* ProviderRegistry.getLLMModel, lines 147-151; the lookup of an id whose
\* provider is not registered throws inside the AI SDK registry
getLLMModel(cfg) ==
    IF cfg.provider \in RegisteredProviders
    THEN Handle("languageModel", cfg)
    ELSE Throws(Thrown("object", TRUE, "NoSuchProviderError",
                       MsgNoSuchProvider \o ProviderChars(cfg.provider),
                       FALSE, NoResponse, "registry"))

(***************************************************************************)
(* Gateways, embedding.ts and llm.ts                                       *)
(***************************************************************************)
EmbeddingApis == {"embed", "embedMany"}
LLMApis == {"generateText", "streamText", "generateObject", "streamObject"}
GatewayApis == EmbeddingApis \cup LLMApis

Family(a) == IF a \in EmbeddingApis THEN "embedding" ELSE "llm"
IsStream(a) == a \in {"streamText", "streamObject"}

\* literal retry budgets of the gateway methods
PrimaryRetriesDefault == 2
FallbackRetriesDefault == 2
DirectRetriesDefault == 2

\* values of config.enableFallback a gateway is constructed with: omitted,
\* true, false
CtorFlags == { << >>, << TRUE >>, << FALSE >> }

\* mutant: the default is applied with ||, which overrides false as well
EnableFallbackOrTrue(flag) == TRUE

\* the constructors, embedding.ts:85 and llm.ts:98:
\* this.enableFallback = config.enableFallback ?? true
EnableFallback(flag) == IF flag = << >> THEN TRUE ELSE flag[1]

\* this.registry.getEmbeddingModel(...) / this.registry.getLLMModel(...)
Resolve(a, cfg) ==
    IF Family(a) = "embedding" THEN getEmbeddingModel(cfg) ELSE getLLMModel(cfg)

\* the object a closure throws is the one the registry created
ThrownIn(e, origin) == [e EXCEPT !.origin = origin]

\* the object literal { model, maxRetries, ...options } handed to the AI SDK:
\* keys of options overwrite the keys written before the spread
ProviderArgs(a, model, maxRetries, opts) ==
    [fn |-> a,
     model |-> IF opts.model # << >> THEN opts.model[1] ELSE model,
     maxRetries |-> IF opts.maxRetries # << >> THEN opts.maxRetries[1] ELSE maxRetries]

\* the FallbackConfig literal of the gateway methods, e.g. embedding.ts:97-103
GatewayFallbackConfig(a, mc) ==
    [enableFallback |-> TRUE,
     primaryMaxRetries |-> PrimaryRetriesDefault,
     fallbackMaxRetries |-> FallbackRetriesDefault,
     primaryProvider |-> mc.provider,
     fallbackProvider |-> DEFAULT_MODELS[Family(a)].fallback.provider]

MsgUnknownStreaming ==
    <<"U","n","k","n","o","w","n"," ","s","t","r","e","a","m","i","n","g"," ","e",
      "r","r","o","r">>

\* the argument of options.onError, llm.ts:180-185
OnErrorArg(e) ==
    IF e.type = "object" /\ e.isError
    THEN [error |-> e]
    ELSE [error |-> PlainError(MsgUnknownStreaming, "gateway")]

\* new EmbeddingProviderError(...) / new LLMProviderError(...)
ProviderErrorCls(fam) ==
    IF fam = "embedding" THEN "EmbeddingProviderError" ELSE "LLMProviderError"
ConfigurationErrorCls(fam) ==
    IF fam = "embedding" THEN "EmbeddingConfigurationError" ELSE "LLMConfigurationError"

GatewayError(fam, tmpl, provider, status, detail, response, cause) ==
    [type |-> "object", isError |-> TRUE, cls |-> ProviderErrorCls(fam),
     message |-> [tmpl |-> tmpl, provider |-> provider, status |-> status,
                  detail |-> detail],
     hasResponse |-> TRUE, response |-> response, origin |-> "gateway",
     provider |-> provider, cause |-> << cause >>]

\* bodies response.json() may yield; a failed parse leaves errorData = {}
JsonBodies ==
    { [errorMessage |-> MsgEmpty, message |-> MsgEmpty],
      [errorMessage |-> MsgRateLimit, message |-> MsgEmpty],
      [errorMessage |-> MsgEmpty, message |-> MsgNetwork] }

\* errorData.error.message || errorData.message || error.message
PickMessage(body, e) ==
    IF body.errorMessage # MsgEmpty THEN body.errorMessage
    ELSE IF body.message # MsgEmpty THEN body.message
    ELSE e.message

\* mutant: the pass-through of the gateway's own errors is missing
handleProviderErrorAlwaysWraps(error, provider, fam, body) ==
    IF /\ error.type = "object" /\ error.isError
       /\ error.hasResponse /\ error.response.isResponse
    THEN GatewayError(fam, "Provider error (${provider}, status ${status}): ${message}",
                      provider, error.response.status, PickMessage(body, error),
                      error.response, error)
    ELSE IF error.type = "object" /\ error.isError
    THEN GatewayError(fam, "Provider error (${provider}): ${error.message}",
                      provider, 0, error.message, NoResponse, error)
    ELSE GatewayError(fam, "Unknown provider error (${provider})",
                      provider, 0, MsgEmpty, NoResponse, error)

\* handleProviderError, embedding.ts:232-284 and llm.ts:294-346:
\* the value the gateway method finally throws
handleProviderError(error, provider, fam, body) ==
    IF /\ error.type = "object" /\ error.isError
       /\ error.cls \in {ConfigurationErrorCls(fam), ProviderErrorCls(fam)}
    THEN error
    ELSE IF /\ error.type = "object" /\ error.isError
            /\ error.hasResponse /\ error.response.isResponse
    THEN GatewayError(fam, "Provider error (${provider}, status ${status}): ${message}",
                      provider, error.response.status, PickMessage(body, error),
                      error.response, error)
    ELSE IF error.type = "object" /\ error.isError
    THEN GatewayError(fam, "Provider error (${provider}): ${error.message}",
                      provider, 0, error.message, NoResponse, error)
    ELSE GatewayError(fam, "Unknown provider error (${provider})",
                      provider, 0, MsgEmpty, NoResponse, error)

(***************************************************************************)
(* Embedding.averageEmbeddings, embedding.ts:186-213.                      *)
(* A JavaScript number is NaN or a fraction num/den in lowest terms with   *)
(* den >= 1: the division of two small integers is exact in that form.     *)
(***************************************************************************)
Num(v) == [nan |-> FALSE, num |-> v, den |-> 1]
NaN == [nan |-> TRUE, num |-> 0, den |-> 1]

RECURSIVE Gcd(_, _)
Gcd(a, b) == IF b = 0 THEN a ELSE Gcd(b, a % b)

Abs(v) == IF v < 0 THEN 0 - v ELSE v

\* mutant: the loop that divides the sums is missing
DivideOmitted(sum, n) == [nan |-> FALSE, num |-> sum, den |-> 1]

\* line 209: averageEmbedding[i] /= embeddings.length, n >= 1
Divide(sum, n) ==
    LET g == Gcd(Abs(sum), n) IN
    [nan |-> FALSE, num |-> sum \div g, den |-> n \div g]

MsgInvalidEmpty ==
    <<"I","n","v","a","l","i","d"," ","i","n","p","u","t",":"," ","E","m",
      "p","t","y"," ","a","r","r","a","y"," ","o","r"," ","e","m","p","t",
      "y"," ","i","n","n","e","r"," ","a","r","r","a","y","s">>
MsgInvalidDimensions ==
    <<"I","n","v","a","l","i","d"," ","i","n","p","u","t",":"," ","I","n",
      "c","o","n","s","i","s","t","e","n","t"," ","d","i","m","e","n","s",
      "i","o","n","s"," ","i","n"," ","e","m","b","e","d","d","i","n","g",
      "s">>

\* lines 195-204: the sum of column i over the first k vectors, NaN skipped
RECURSIVE ColumnSum(_, _, _)
ColumnSum(embeddings, i, k) ==
    IF k = 0 THEN 0
    ELSE ColumnSum(embeddings, i, k - 1)
         + (IF embeddings[k][i].nan THEN 0 ELSE embeddings[k][i].num)

\* what a call leaves: the value returned or the error thrown, and the
\* argument array as it is after the call
AvgReturns(value, embeddings) ==
    [threw |-> FALSE, value |-> << value >>, error |-> << >>, embeddings |-> embeddings]
AvgThrows(e, embeddings) ==
    [threw |-> TRUE, value |-> << >>, error |-> << e >>, embeddings |-> embeddings]

\* mutant: the sums are accumulated in embeddings[0] instead of a new array
averageEmbeddingsInPlace(embeddings) ==
    IF Len(embeddings) = 0
    THEN AvgThrows(PlainError(MsgInvalidEmpty, "averageEmbeddings"), embeddings)
    ELSE LET dimensions == Len(embeddings[1]) IN
         IF \E k \in 1..Len(embeddings) : Len(embeddings[k]) # dimensions
         THEN AvgThrows(PlainError(MsgInvalidDimensions, "averageEmbeddings"),
                        embeddings)
         ELSE LET avg == [i \in 1..dimensions |->
                           Divide(ColumnSum(embeddings, i, Len(embeddings)),
                                  Len(embeddings))]
              IN  AvgReturns(avg, [embeddings EXCEPT ![1] = avg])

\* lines 186-213; embeddings[0] of a non-empty number[][] is an array, which
\* is truthy also when it is empty
averageEmbeddings(embeddings) ==
    IF Len(embeddings) = 0
    THEN AvgThrows(PlainError(MsgInvalidEmpty, "averageEmbeddings"), embeddings)
    ELSE LET dimensions == Len(embeddings[1]) IN
         IF \E k \in 1..Len(embeddings) : Len(embeddings[k]) # dimensions
         THEN AvgThrows(PlainError(MsgInvalidDimensions, "averageEmbeddings"),
                        embeddings)
         ELSE AvgReturns([i \in 1..dimensions |->
                            Divide(ColumnSum(embeddings, i, Len(embeddings)),
                                   Len(embeddings))],
                         embeddings)

\* the numbers and vectors the harness enumerates
AvgElements == { Num(v) : v \in 1..4 } \cup { NaN }
AvgDimensions == {0, 1, 2}
AvgVectors == UNION { [1..d -> AvgElements] : d \in AvgDimensions }
AvgInputs == UNION { [1..n -> AvgVectors] : n \in 0..MaxVectors }

\* a caller invokes averageEmbeddings(avgInput)
AvgCall ==
    /\ avgResult = << >>
    /\ avgResult' = << averageEmbeddings(avgInput) >>
    /\ avgInput' = averageEmbeddings(avgInput).embeddings
    /\ UNCHANGED << clsInput, clsOutput, clsImmediate, authVars, neoVars >>
    /\ UNCHANGED callVars

(***************************************************************************)
(* apiKeyAuth, src/src/middleware/auth.ts:9-56                             *)
(***************************************************************************)
\* s.split(" "): the pieces between single spaces, empty pieces included
RECURSIVE SplitSpace(_)
SplitSpace(s) ==
    IF s = << >> THEN << << >> >>
    ELSE LET rest == SplitSpace(Tail(s)) IN
         IF Head(s) = " "
         THEN << << >> >> \o rest
         ELSE << << Head(s) >> \o rest[1] >> \o Tail(rest)

StrBearer == <<"B","e","a","r","e","r">>

\* how the middleware ends: it awaited next(), or threw HTTPException(status)
AuthNext == [kind |-> "next", status |-> 0, message |-> "none"]
AuthThrows(status, message) == [kind |-> "throw", status |-> status, message |-> message]

\* lines 10-55: an unset or empty API_KEY and an absent or empty header are
\* falsy; [scheme, token] are the first two pieces of the split, token being
\* undefined when there is one piece only
apiKeyAuth(apiKey, header) ==
    IF apiKey = << >> \/ apiKey[1] = << >>
    THEN AuthThrows(500, "Authentication configuration error")
    ELSE IF header = << >> \/ header[1] = << >>
    THEN AuthThrows(401, "Authorization header required")
    ELSE LET pieces == SplitSpace(header[1])
             scheme == pieces[1]
             token == IF Len(pieces) >= 2 THEN pieces[2] ELSE << >>
         IN  IF scheme # StrBearer \/ token = << >>
             THEN AuthThrows(401, "Invalid authorization format")
             ELSE IF token # apiKey[1]
             THEN AuthThrows(401, "Invalid API key")
             ELSE AuthNext

\* values of API_KEY and of the Authorization header the harness enumerates
AuthKeys == { << >>, << << >> >>, << <<"k","1">> >>, << <<"k","2">> >> }
AuthHeaders ==
    { << >> }
    \cup { << scheme \o gap \o token \o rest >> :
             scheme \in { << >>, StrBearer, <<"b","e","a","r","e","r">>,
                          <<"B","a","s","i","c">> },
             gap \in { << >>, <<" ">>, <<" "," ">> },
             token \in { << >>, <<"k","1">>, <<"k","2">> },
             rest \in { << >>, <<" ","x">> } }

\* a request reaches the middleware: lines 10-55, up to the await of next()
\* or the throw
AuthRequest ==
    /\ authPc = "idle"
    /\ LET r == apiKeyAuth(authApiKey, authHeader) IN
       /\ authResult' = << r >>
       /\ authPc' = IF r.kind = "next" THEN "next" ELSE "done"
    /\ UNCHANGED << authApiKey, authHeader >>
    /\ UNCHANGED << clsInput, clsOutput, clsImmediate, avgVars, neoVars >>
    /\ UNCHANGED callVars

\* the next handler has run and next() resolves: line 55
AuthNextReturns ==
    /\ authPc = "next"
    /\ authPc' = "done"
    /\ UNCHANGED << authApiKey, authHeader, authResult >>
    /\ UNCHANGED << clsInput, clsOutput, clsImmediate, avgVars, neoVars >>
    /\ UNCHANGED callVars

(***************************************************************************)
(* Neo4j client, src/src/services/neo4j.ts:19-194.                         *)
(* A task is one top-level call of connect(), disconnect() or              *)
(* executeQuery(); a step runs from one await to the next.                 *)
(***************************************************************************)
NeoTasks == {1, 2}
\* the task that also calls executeQuery; the other one calls connect and
\* disconnect around it
QueryTasks == {1}

NoDriver == "null"
ADriver == "driver"

\* line 24: private maxRetries = 3
Neo4jMaxRetries == 3
\* line 141: options.retries || 2
DefaultQueryRetries == 2

\* messages of the errors the server makes getServerInfo() and run() fail with
InfoFailures == {"unreachable"}
RunFailures == {"e1", "e2"}

\* what a call returns or throws, and what a try block leaves for after finally
NeoNothing == [kind |-> "none", tmpl |-> "", n |-> 0, detail |-> ""]
NeoContinue == [kind |-> "continue", tmpl |-> "", n |-> 0, detail |-> ""]
NeoOk == [kind |-> "ok", tmpl |-> "", n |-> 0, detail |-> ""]
NeoError(tmpl, n, detail) == [kind |-> "error", tmpl |-> tmpl, n |-> n, detail |-> detail]

ConnectFailed(detail) ==
    NeoError("Failed to connect to Neo4j after ${maxRetries} attempts: ${message}",
             Neo4jMaxRetries, detail)
QueryFailed(maxRetries, detail) ==
    NeoError("Query failed after ${maxRetries + 1} attempts: ${message}",
             maxRetries + 1, detail)
NotReached ==
    NeoError("Query execution failed - this should not be reached", 0, "")

\* a task: kind of call, position, and the locals of executeQuery;
\* attemptsMade, runs and leaked are counted for the properties:
\*   attemptsMade  getServerInfo() calls of this top-level call
\*   runs          session.run() calls of this call
\*   leaked        sessions of this call that are open and no longer referenced
IdleTask ==
    [kind |-> "idle", pc |-> "idle", retries |-> << >>, maxRetries |-> 0,
     attempt |-> 0, runs |-> 0, attemptsMade |-> 0, session |-> "none",
     leaked |-> 0, pending |-> NeoNothing, result |-> << >>]

NeoDone(tk, res) == [tk EXCEPT !.pc = "done", !.result = << res >>]

\* line 141: const maxRetries = options.retries || 2; 0 is falsy
QueryRetries(retries) ==
    IF retries = << >> \/ retries[1] = 0 THEN DefaultQueryRetries ELSE retries[1]

\* connect() has returned: a connect task is done; executeQuery resumes after
\* its await at line 137
ConnectReturned(tk) ==
    IF tk.kind = "connect" THEN NeoDone(tk, NeoOk) ELSE [tk EXCEPT !.pc = "connected"]

\* lines 39-53: connect() from its entry to the await of getServerInfo()
ConnectEntry(tk, drv, conn) ==
    IF conn /\ drv # NoDriver
    THEN [task |-> ConnectReturned(tk), driver |-> drv]
    ELSE [task |-> [tk EXCEPT !.pc = "getServerInfo", !.attemptsMade = @ + 1],
          driver |-> ADriver]

\* lines 174-190 when the attempt failed with message m: the catch block, and
\* the finally block when there is no session to close
CatchRun(tk, m) ==
    LET a == tk.attempt + 1 IN
    IF a > tk.maxRetries
    THEN LET thrown == QueryFailed(tk.maxRetries, m) IN
         IF tk.session # "none"
         THEN [tk EXCEPT !.attempt = a, !.pending = thrown, !.pc = "sessionClose"]
         ELSE NeoDone([tk EXCEPT !.attempt = a], thrown)
    ELSE [tk EXCEPT !.attempt = a, !.pending = NeoContinue, !.pc = "delay"]

\* lines 144-155, 193: the loop test and the try block up to the await of run()
LoopIteration(tk, drv) ==
    IF tk.attempt > tk.maxRetries THEN NeoDone(tk, NotReached)
    ELSE IF drv = NoDriver THEN CatchRun(tk, "Driver not connected")
    ELSE [tk EXCEPT !.pc = "run",
                    !.runs = @ + 1,
                    !.leaked = @ + (IF tk.session = "open" THEN 1 ELSE 0),
                    !.session = "open"]

\* after the finally block: return, throw, or the next turn of the loop
AfterFinally(tk, drv) ==
    IF tk.pending.kind = "continue"
    THEN LoopIteration([tk EXCEPT !.pending = NeoNothing], drv)
    ELSE NeoDone(tk, tk.pending)

\* what no step of the Neo4j client touches
neoFrame == << clsInput, clsOutput, clsImmediate, avgVars, authVars, callVars >>

NeoUpd(t, tk) == [neoTask EXCEPT ![t] = tk]

\* a caller invokes connect()
NeoCallConnect(t) ==
    /\ neoTask[t].kind = "idle"
    /\ LET r == ConnectEntry([IdleTask EXCEPT !.kind = "connect"], driver, isConnected)
       IN  /\ neoTask' = NeoUpd(t, r.task)
           /\ driver' = r.driver
    /\ UNCHANGED << isConnected, connectionAttempts >>
    /\ UNCHANGED neoFrame

\* line 53 resolves: lines 55-60
NeoServerInfoOk(t) ==
    /\ neoTask[t].pc = "getServerInfo"
    /\ isConnected' = TRUE
    /\ connectionAttempts' = 0
    /\ neoTask' = NeoUpd(t, ConnectReturned(neoTask[t]))
    /\ UNCHANGED driver
    /\ UNCHANGED neoFrame

\* line 53 rejects with message m: lines 61-78, up to the backoff timer;
\* a throw of connect() inside executeQuery leaves executeQuery too (line 137)
NeoServerInfoFails(t, m) ==
    /\ neoTask[t].pc = "getServerInfo"
    /\ connectionAttempts < MaxConnectionAttempts
    /\ connectionAttempts' = connectionAttempts + 1
    /\ neoTask' = NeoUpd(t, IF connectionAttempts + 1 >= Neo4jMaxRetries
                            THEN NeoDone(neoTask[t], ConnectFailed(m))
                            ELSE [neoTask[t] EXCEPT !.pc = "backoff"])
    /\ UNCHANGED << driver, isConnected >>
    /\ UNCHANGED neoFrame

\* line 78 resolves: return this.connect(), line 79
NeoBackoffDone(t) ==
    /\ neoTask[t].pc = "backoff"
    /\ neoTask[t].attemptsMade < MaxConnectionAttempts
    /\ LET r == ConnectEntry(neoTask[t], driver, isConnected)
       IN  /\ neoTask' = NeoUpd(t, r.task)
           /\ driver' = r.driver
    /\ UNCHANGED << isConnected, connectionAttempts >>
    /\ UNCHANGED neoFrame

\* a caller invokes disconnect(): lines 87-89
NeoCallDisconnect(t) ==
    /\ neoTask[t].kind = "idle"
    /\ neoTask' = NeoUpd(t, IF driver # NoDriver
                            THEN [IdleTask EXCEPT !.kind = "disconnect",
                                                  !.pc = "driverClose"]
                            ELSE NeoDone([IdleTask EXCEPT !.kind = "disconnect"], NeoOk))
    /\ UNCHANGED << driver, isConnected, connectionAttempts >>
    /\ UNCHANGED neoFrame

\* line 89 resolves: lines 90-92
NeoDriverCloseOk(t) ==
    /\ neoTask[t].pc = "driverClose"
    /\ driver' = NoDriver
    /\ isConnected' = FALSE
    /\ neoTask' = NeoUpd(t, NeoDone(neoTask[t], NeoOk))
    /\ UNCHANGED connectionAttempts
    /\ UNCHANGED neoFrame

\* line 89 rejects: lines 93-95
NeoDriverCloseFails(t) ==
    /\ neoTask[t].pc = "driverClose"
    /\ neoTask' = NeoUpd(t, NeoDone(neoTask[t], NeoError("driver.close", 0, "close failed")))
    /\ UNCHANGED << driver, isConnected, connectionAttempts >>
    /\ UNCHANGED neoFrame

\* a caller invokes executeQuery(cypher, parameters, {retries}): lines 136-155.
\* The locals of lines 140-142 are set here; nothing reads them before.
NeoCallQuery(t, retries) ==
    /\ t \in QueryTasks
    /\ neoTask[t].kind = "idle"
    /\ LET tk == [IdleTask EXCEPT !.kind = "query", !.retries = retries,
                                  !.maxRetries = QueryRetries(retries)]
       IN  IF driver = NoDriver \/ ~isConnected
           THEN LET r == ConnectEntry(tk, driver, isConnected)
                IN  /\ neoTask' = NeoUpd(t, r.task)
                    /\ driver' = r.driver
           ELSE /\ neoTask' = NeoUpd(t, LoopIteration(tk, driver))
                /\ UNCHANGED driver
    /\ UNCHANGED << isConnected, connectionAttempts >>
    /\ UNCHANGED neoFrame

\* the await of line 137 resumes: lines 140-155
NeoAfterConnect(t) ==
    /\ neoTask[t].pc = "connected"
    /\ neoTask' = NeoUpd(t, LoopIteration(neoTask[t], driver))
    /\ UNCHANGED << driver, isConnected, connectionAttempts >>
    /\ UNCHANGED neoFrame

\* line 155 resolves: lines 157-173, then the finally block up to line 188
NeoRunOk(t) ==
    /\ neoTask[t].pc = "run"
    /\ neoTask' = NeoUpd(t, [neoTask[t] EXCEPT !.pending = NeoOk, !.pc = "sessionClose"])
    /\ UNCHANGED << driver, isConnected, connectionAttempts >>
    /\ UNCHANGED neoFrame

\* line 155 rejects with message m: lines 174-185
NeoRunFails(t, m) ==
    /\ neoTask[t].pc = "run"
    /\ neoTask' = NeoUpd(t, CatchRun(neoTask[t], m))
    /\ UNCHANGED << driver, isConnected, connectionAttempts >>
    /\ UNCHANGED neoFrame

\* mutant: the session is closed after a successful run only
NeoDelayDoneWithoutFinally(t) ==
    /\ neoTask[t].pc = "delay"
    /\ neoTask' = NeoUpd(t, AfterFinally(neoTask[t], driver))
    /\ UNCHANGED << driver, isConnected, connectionAttempts >>
    /\ UNCHANGED neoFrame

\* line 185 resolves: the finally block, lines 186-188
NeoDelayDone(t) ==
    /\ neoTask[t].pc = "delay"
    /\ neoTask' = NeoUpd(t, IF neoTask[t].session # "none"
                            THEN [neoTask[t] EXCEPT !.pc = "sessionClose"]
                            ELSE AfterFinally(neoTask[t], driver))
    /\ UNCHANGED << driver, isConnected, connectionAttempts >>
    /\ UNCHANGED neoFrame

\* line 188 resolves: the session is closed; return, throw or loop
NeoSessionClosed(t) ==
    /\ neoTask[t].pc = "sessionClose"
    /\ neoTask' = NeoUpd(t, AfterFinally([neoTask[t] EXCEPT !.session = "closed"], driver))
    /\ UNCHANGED << driver, isConnected, connectionAttempts >>
    /\ UNCHANGED neoFrame

\* the caller has the result of its call; the task takes the next call
NeoReturn(t) ==
    /\ neoTask[t].pc = "done"
    /\ neoTask' = NeoUpd(t, IdleTask)
    /\ UNCHANGED << driver, isConnected, connectionAttempts >>
    /\ UNCHANGED neoFrame

\* the options.retries values callers pass
RetriesOptions == { << >> } \cup { << n >> : n \in 0..MaxRetriesOption }

(***************************************************************************)
(* Environment: what the provider calls and caller closures produce.       *)
(***************************************************************************)
Calls == {1}

EnvStatuses == {400, 401, 402, 404, 429, 503}

\* errors of the gateways' own classes, as a nested gateway call or an
\* injected registry throws them
GatewayClassErrors(origin) ==
    { [Thrown("object", TRUE, "LLMProviderError", MsgBoom, TRUE, NoResponse, origin)
          EXCEPT !.provider = "openai"],
      [Thrown("object", TRUE, "EmbeddingConfigurationError", MsgBoom, FALSE,
              NoResponse, origin)
          EXCEPT !.provider = "e2e"] }

\* values a closure or provider call may reject with
EnvErrors(origin) ==
    { Thrown("nullish", FALSE, "none", MsgEmpty, FALSE, NoResponse, origin),
      Thrown("string", FALSE, "none", MsgEmpty, FALSE, NoResponse, origin),
      Thrown("object", FALSE, "Object", MsgEmpty, TRUE, OddResponse, origin),
      PlainError(MsgBoom, origin), PlainError(MsgConnTimeout, origin),
      PlainError(MsgApiKey, origin) }
    \cup { ApiError(MsgBoom, s, origin) : s \in EnvStatuses }
    \cup GatewayClassErrors(origin)

\* values the fallback operation may reject with
FallbackEnvErrors(origin) ==
    { Thrown("nullish", FALSE, "none", MsgEmpty, FALSE, NoResponse, origin),
      PlainError(MsgApiKey, origin),
      ApiError(MsgBoom, 400, origin), ApiError(MsgBoom, 503, origin) }

\* values a closure or provider call may resolve with
Values(origin) == { [data |-> d, by |-> origin] : d \in {"ok", "other"} }

\* FallbackConfig objects of a direct caller of withFallback
DirectConfigs ==
    [enableFallback : BOOLEAN,
     primaryMaxRetries : 0..MaxRetryBudget,
     fallbackMaxRetries : 0..MaxRetryBudget,
     primaryProvider : {"primary"},
     fallbackProvider : {"fallback"}]

\* ModelConfig arguments of a gateway method (the default parameter included)
ModelConfigs(a) ==
    { DEFAULT_MODELS[Family(a)].primary }
    \cup { ModelCfg(p, "custom-model") : p \in Providers }

CallerModel == [kind |-> "callerModel", provider |-> "caller", modelId |-> "caller"]

\* options arguments of gateway method a; onError is an option of the
\* streaming methods only
OptionsPool(a) ==
    [maxRetries : {<< >>, << 7 >>},
     model : {<< >>, << CallerModel >>},
     onError : IF IsStream(a) THEN BOOLEAN ELSE {FALSE}]

NoConfig ==
    [enableFallback |-> FALSE, primaryMaxRetries |-> 0, fallbackMaxRetries |-> 0,
     primaryProvider |-> None, fallbackProvider |-> None]
NoOptions == [maxRetries |-> << >>, model |-> << >>, onError |-> FALSE]

(***************************************************************************)
(* Fallback orchestrator, fallbackWrapper.ts:40-111                        *)
(***************************************************************************)
Upd(f, c, v) == [f EXCEPT ![c] = v]

Ok(v) == [kind |-> "ok", value |-> v]
Err(e) == [kind |-> "error", error |-> e]

\* line 52: the argument of primaryOperation
PrimaryBudget(cfg) == cfg.primaryMaxRetries

\* mutant: the fallback is given the primary's retry budget
FallbackBudgetOfPrimary(cfg) == cfg.primaryMaxRetries

\* line 89: the argument of fallbackOperation
FallbackBudget(cfg) == cfg.fallbackMaxRetries

\* mutant: the enableFallback test is missing
CatchDecisionIgnoresDisabled(cfg, classification) ==
    IF ~classification.shouldFallback THEN "notEligible"
    ELSE "fallback"

\* mutant: a transient failure is left to the retries and never falls back
CatchDecisionTransientStops(cfg, classification) ==
    IF ~cfg.enableFallback THEN "fallbackDisabled"
    ELSE IF ~classification.shouldFallback \/ classification.errorType = "transient"
    THEN "notEligible"
    ELSE "fallback"

\* lines 67-89: what the catch block does with a classified primary failure
CatchDecision(cfg, classification) ==
    IF ~cfg.enableFallback THEN "fallbackDisabled"
    ELSE IF ~classification.shouldFallback THEN "notEligible"
    ELSE "fallback"

\* mutant: the most recent error is thrown
BothFailedThrowsLatest(primaryErr, fallbackErr) == fallbackErr

\* line 108: the value thrown when the fallback failed too
BothFailedThrows(primaryErr, fallbackErr) == primaryErr

\* mutant: the fallback closure resolves the default primary model
FallbackTargetPrimaryDefault(a) == DEFAULT_MODELS[Family(a)].primary

\* the fallback closure of a gateway method resolves the default fallback model
FallbackTarget(a) == DEFAULT_MODELS[Family(a)].fallback

\* a gateway closure: resolve the model, then call the provider;
\* a throw of the registry rejects the closure's promise at once
ClosureStart(a, mc, maxRetries, opts) ==
    LET r == Resolve(a, mc) IN
    IF r.threw
    THEN [state |-> "threw", calls |-> << >>]
    ELSE [state |-> "inFlight",
          calls |-> << ProviderArgs(a, r.handle[1], maxRetries, opts) >>]

\* a closure of a direct caller is opaque: it is pending until it settles
OpaqueStart == [state |-> "inFlight", calls |-> << >>]

\* the catch block of a gateway method, e.g. embedding.ts:126-128, llm.ts:178-188
GatewayCatch(c, a, mc, opts, e, body) ==
    /\ gwCaught' = Upd(gwCaught, c, << e >>)
    /\ onErrorCalls' = IF IsStream(a) /\ opts.onError
                       THEN Upd(onErrorCalls, c, Append(onErrorCalls[c], OnErrorArg(e)))
                       ELSE onErrorCalls
    /\ gwOutcome' = Upd(gwOutcome, c,
                        << Err(handleProviderError(e, mc.provider, Family(a), body)) >>)

\* withFallback returns v (lines 58, 98); a gateway method returns it in turn
WfReturns(c, v, br) ==
    /\ outcome' = Upd(outcome, c, << Ok(v) >>)
    /\ branch' = Upd(branch, c, br)
    /\ gwOutcome' = IF api[c] = "withFallback" THEN gwOutcome
                    ELSE Upd(gwOutcome, c, << Ok(v) >>)
    /\ UNCHANGED << onErrorCalls, gwCaught >>
    /\ pc' = Upd(pc, c, "done")

\* withFallback throws e (lines 72, 80, 108); a gateway method catches it
WfThrows(c, e, br, body) ==
    /\ outcome' = Upd(outcome, c, << Err(e) >>)
    /\ branch' = Upd(branch, c, br)
    /\ IF api[c] = "withFallback"
       THEN UNCHANGED << onErrorCalls, gwCaught, gwOutcome >>
       ELSE GatewayCatch(c, api[c], modelConfig[c], options[c], e, body)
    /\ pc' = Upd(pc, c, "done")

\* mutant: the fallback operation is started together with the primary
CallWithFallbackSpeculative(c, cfg) ==
    /\ pc[c] = "idle"
    /\ api' = Upd(api, c, "withFallback")
    /\ config' = Upd(config, c, cfg)
    /\ primaryArgs' = Upd(primaryArgs, c, << cfg.primaryMaxRetries >>)
    /\ primaryState' = Upd(primaryState, c, "inFlight")
    /\ fallbackState' = Upd(fallbackState, c,
                            IF cfg.enableFallback THEN "inFlight" ELSE "notStarted")
    /\ pc' = Upd(pc, c, "primary")
    /\ UNCHANGED << clsVars, gwFallback, ctorEnableFallback, modelConfig, options, fallbackArgs,
                    primaryError, fallbackError, classifications,
                    branch, outcome, resolved, providerCalls, onErrorCalls, gwCaught,
                    gwOutcome >>

\* a caller invokes withFallback(primaryOperation, fallbackOperation, cfg):
\* lines 45-52, up to the await of the primary operation
CallWithFallback(c, cfg) ==
    /\ pc[c] = "idle"
    /\ api' = Upd(api, c, "withFallback")
    /\ config' = Upd(config, c, cfg)
    /\ primaryArgs' = Upd(primaryArgs, c, << PrimaryBudget(cfg) >>)
    /\ primaryState' = Upd(primaryState, c, OpaqueStart.state)
    /\ pc' = Upd(pc, c, "primary")
    /\ UNCHANGED << clsVars, gwFallback, ctorEnableFallback, modelConfig, options, fallbackArgs,
                    fallbackState, primaryError, fallbackError, classifications,
                    branch, outcome, resolved, providerCalls, onErrorCalls, gwCaught,
                    gwOutcome >>

\* a caller invokes a gateway method a(opts, mc) of an instance constructed
\* with config.enableFallback = flag: up to the first await
GatewayCall(c, a, mc, opts, flag) ==
    /\ pc[c] = "idle"
    /\ api' = Upd(api, c, a)
    /\ modelConfig' = Upd(modelConfig, c, mc)
    /\ options' = Upd(options, c, opts)
    /\ ctorEnableFallback' = Upd(ctorEnableFallback, c, flag)
    /\ gwFallback' = Upd(gwFallback, c, EnableFallback(flag))
    /\ resolved' = Upd(resolved, c, << mc >>)
    /\ IF EnableFallback(flag)
       THEN LET cfg == GatewayFallbackConfig(a, mc)
                start == ClosureStart(a, mc, PrimaryBudget(cfg), opts)
            IN  /\ config' = Upd(config, c, cfg)
                /\ primaryArgs' = Upd(primaryArgs, c, << PrimaryBudget(cfg) >>)
                /\ primaryState' = Upd(primaryState, c, start.state)
                /\ providerCalls' = Upd(providerCalls, c, start.calls)
                /\ pc' = Upd(pc, c, "primary")
                /\ UNCHANGED << onErrorCalls, gwCaught, gwOutcome >>
       ELSE LET r == Resolve(a, mc) IN
            /\ UNCHANGED << config, primaryArgs, primaryState >>
            /\ IF r.threw
               THEN /\ GatewayCatch(c, a, mc, opts, ThrownIn(r.error[1], "primary"),
                                    CHOOSE b \in JsonBodies : TRUE)
                    /\ pc' = Upd(pc, c, "done")
                    /\ UNCHANGED providerCalls
               ELSE /\ providerCalls' = Upd(providerCalls, c,
                          << ProviderArgs(a, r.handle[1], DirectRetriesDefault, opts) >>)
                    /\ pc' = Upd(pc, c, "direct")
                    /\ UNCHANGED << onErrorCalls, gwCaught, gwOutcome >>
    /\ UNCHANGED << clsVars, fallbackArgs, fallbackState, primaryError,
                    fallbackError, classifications, branch, outcome >>

\* mutant: the classification is computed for the log whatever the result
PrimarySucceedsClassifying(c, v) ==
    /\ pc[c] = "primary"
    /\ primaryState[c] = "inFlight"
    /\ primaryState' = Upd(primaryState, c, "fulfilled")
    /\ classifications' = Upd(classifications, c,
           Append(classifications[c],
                  classifyError(Thrown("nullish", FALSE, "none", MsgEmpty, FALSE,
                                       NoResponse, "primary"))))
    /\ WfReturns(c, v, "primaryOk")
    /\ UNCHANGED << clsVars, api, gwFallback, ctorEnableFallback, modelConfig, options, config,
                    primaryArgs, fallbackArgs, fallbackState, primaryError,
                    fallbackError, resolved, providerCalls >>

\* the await at line 52 yields a value: lines 54-58
PrimarySucceeds(c, v) ==
    /\ pc[c] = "primary"
    /\ primaryState[c] = "inFlight"
    /\ primaryState' = Upd(primaryState, c, "fulfilled")
    /\ WfReturns(c, v, "primaryOk")
    /\ UNCHANGED << clsVars, api, gwFallback, ctorEnableFallback, modelConfig, options, config,
                    primaryArgs, fallbackArgs, fallbackState, primaryError,
                    fallbackError, classifications, resolved, providerCalls >>

\* the values the pending primary operation can reject with
PrimaryFailures(c) ==
    IF primaryState[c] = "threw"
    THEN { ThrownIn(Resolve(api[c], modelConfig[c]).error[1], "primary") }
    ELSE EnvErrors("primary")

\* mutant: a streaming method reports the primary failure to options.onError
\* before the fallback operation is started
PrimaryFailsNotifying(c, e, body) ==
    /\ pc[c] = "primary"
    /\ primaryState[c] \in {"inFlight", "threw"}
    /\ e \in PrimaryFailures(c)
    /\ LET classification == classifyError(e)
           decision == CatchDecision(config[c], classification)
       IN  /\ primaryState' = Upd(primaryState, c, "rejected")
           /\ primaryError' = Upd(primaryError, c, << e >>)
           /\ classifications' = Upd(classifications, c,
                                     Append(classifications[c], classification))
           /\ IF decision = "fallback"
              THEN LET start == IF api[c] = "withFallback" THEN OpaqueStart
                                ELSE ClosureStart(api[c], FallbackTarget(api[c]),
                                                  FallbackBudget(config[c]), options[c])
                   IN  /\ fallbackArgs' = Upd(fallbackArgs, c,
                               Append(fallbackArgs[c], FallbackBudget(config[c])))
                       /\ fallbackState' = Upd(fallbackState, c, start.state)
                       /\ providerCalls' = Upd(providerCalls, c,
                                               providerCalls[c] \o start.calls)
                       /\ resolved' = IF api[c] = "withFallback" THEN resolved
                                      ELSE Upd(resolved, c,
                                               Append(resolved[c], FallbackTarget(api[c])))
                       /\ pc' = Upd(pc, c, "fallback")
                       /\ onErrorCalls' =
                            IF IsStream(api[c]) /\ options[c].onError
                            THEN Upd(onErrorCalls, c,
                                     Append(onErrorCalls[c], OnErrorArg(e)))
                            ELSE onErrorCalls
                       /\ UNCHANGED << outcome, branch, gwCaught, gwOutcome >>
              ELSE /\ WfThrows(c, e, decision, body)
                   /\ UNCHANGED << fallbackArgs, fallbackState, providerCalls, resolved >>
    /\ UNCHANGED << clsVars, api, gwFallback, ctorEnableFallback, modelConfig, options, config,
                    primaryArgs, fallbackError >>

\* mutant: the caught primary error is kept in a variable of the module,
\* shared by all invocations
PrimaryFailsShared(c, e, body) ==
    /\ pc[c] = "primary"
    /\ primaryState[c] \in {"inFlight", "threw"}
    /\ e \in PrimaryFailures(c)
    /\ LET classification == classifyError(e)
           decision == CatchDecision(config[c], classification)
       IN  /\ primaryState' = Upd(primaryState, c, "rejected")
           /\ primaryError' = [d \in DOMAIN primaryError |-> << e >>]
           /\ classifications' = Upd(classifications, c,
                                     Append(classifications[c], classification))
           /\ IF decision = "fallback"
              THEN LET start == IF api[c] = "withFallback" THEN OpaqueStart
                                ELSE ClosureStart(api[c], FallbackTarget(api[c]),
                                                  FallbackBudget(config[c]), options[c])
                   IN  /\ fallbackArgs' = Upd(fallbackArgs, c,
                               Append(fallbackArgs[c], FallbackBudget(config[c])))
                       /\ fallbackState' = Upd(fallbackState, c, start.state)
                       /\ providerCalls' = Upd(providerCalls, c,
                                               providerCalls[c] \o start.calls)
                       /\ resolved' = IF api[c] = "withFallback" THEN resolved
                                      ELSE Upd(resolved, c,
                                               Append(resolved[c], FallbackTarget(api[c])))
                       /\ pc' = Upd(pc, c, "fallback")
                       /\ UNCHANGED << outcome, branch, onErrorCalls, gwCaught, gwOutcome >>
              ELSE /\ WfThrows(c, e, decision, body)
                   /\ UNCHANGED << fallbackArgs, fallbackState, providerCalls, resolved >>
    /\ UNCHANGED << clsVars, api, gwFallback, ctorEnableFallback, modelConfig, options, config,
                    primaryArgs, fallbackError >>

\* the await at line 52 throws e: the catch block, lines 59-89, up to the
\* await of the fallback operation
PrimaryFails(c, e, body) ==
    /\ pc[c] = "primary"
    /\ primaryState[c] \in {"inFlight", "threw"}
    /\ e \in PrimaryFailures(c)
    /\ LET classification == classifyError(e)
           decision == CatchDecision(config[c], classification)
       IN  /\ primaryState' = Upd(primaryState, c, "rejected")
           /\ primaryError' = Upd(primaryError, c, << e >>)
           /\ classifications' = Upd(classifications, c,
                                     Append(classifications[c], classification))
           /\ IF decision = "fallback"
              THEN LET start == IF api[c] = "withFallback" THEN OpaqueStart
                                ELSE ClosureStart(api[c], FallbackTarget(api[c]),
                                                  FallbackBudget(config[c]), options[c])
                   IN  /\ fallbackArgs' = Upd(fallbackArgs, c,
                               Append(fallbackArgs[c], FallbackBudget(config[c])))
                       /\ fallbackState' = Upd(fallbackState, c, start.state)
                       /\ providerCalls' = Upd(providerCalls, c,
                                               providerCalls[c] \o start.calls)
                       /\ resolved' = IF api[c] = "withFallback" THEN resolved
                                      ELSE Upd(resolved, c,
                                               Append(resolved[c], FallbackTarget(api[c])))
                       /\ pc' = Upd(pc, c, "fallback")
                       /\ UNCHANGED << outcome, branch, onErrorCalls, gwCaught, gwOutcome >>
              ELSE /\ WfThrows(c, e, decision, body)
                   /\ UNCHANGED << fallbackArgs, fallbackState, providerCalls, resolved >>
    /\ UNCHANGED << clsVars, api, gwFallback, ctorEnableFallback, modelConfig, options, config,
                    primaryArgs, fallbackError >>

\* the await at line 89 yields a value: lines 91-98
FallbackSucceeds(c, v) ==
    /\ pc[c] = "fallback"
    /\ fallbackState[c] = "inFlight"
    /\ fallbackState' = Upd(fallbackState, c, "fulfilled")
    /\ WfReturns(c, v, "fallbackOk")
    /\ UNCHANGED << clsVars, api, gwFallback, ctorEnableFallback, modelConfig, options, config,
                    primaryArgs, fallbackArgs, primaryState, primaryError,
                    fallbackError, classifications, resolved, providerCalls >>

\* the values the pending fallback operation can reject with
FallbackFailures(c) ==
    IF fallbackState[c] = "threw"
    THEN { ThrownIn(Resolve(api[c], FallbackTarget(api[c])).error[1], "fallback") }
    ELSE FallbackEnvErrors("fallback")

\* the await at line 89 throws e: lines 99-108
FallbackFails(c, e, body) ==
    /\ pc[c] = "fallback"
    /\ fallbackState[c] \in {"inFlight", "threw"}
    /\ e \in FallbackFailures(c)
    /\ fallbackState' = Upd(fallbackState, c, "rejected")
    /\ fallbackError' = Upd(fallbackError, c, << e >>)
    /\ classifications' = Upd(classifications, c,
                              Append(classifications[c], classifyError(e)))
    /\ WfThrows(c, BothFailedThrows(primaryError[c][1], e), "bothFailed", body)
    /\ UNCHANGED << clsVars, api, gwFallback, ctorEnableFallback, modelConfig, options, config,
                    primaryArgs, fallbackArgs, primaryState, primaryError,
                    resolved, providerCalls >>

\* gateway without fallback: the provider call yields a value
DirectSucceeds(c, v) ==
    /\ pc[c] = "direct"
    /\ gwOutcome' = Upd(gwOutcome, c, << Ok(v) >>)
    /\ pc' = Upd(pc, c, "done")
    /\ UNCHANGED << clsVars, api, gwFallback, ctorEnableFallback, modelConfig, options, config,
                    primaryArgs, fallbackArgs, primaryState, fallbackState,
                    primaryError, fallbackError, classifications, branch, outcome,
                    resolved, providerCalls, onErrorCalls, gwCaught >>

\* gateway without fallback: the provider call throws e
DirectFails(c, e, body) ==
    /\ pc[c] = "direct"
    /\ GatewayCatch(c, api[c], modelConfig[c], options[c], e, body)
    /\ pc' = Upd(pc, c, "done")
    /\ UNCHANGED << clsVars, api, gwFallback, ctorEnableFallback, modelConfig, options, config,
                    primaryArgs, fallbackArgs, primaryState, fallbackState,
                    primaryError, fallbackError, classifications, branch, outcome,
                    resolved, providerCalls >>

\* the caller has its result; the slot serves the next call
Return(c) ==
    /\ pc[c] = "done"
    /\ pc' = Upd(pc, c, "idle")
    /\ api' = Upd(api, c, None)
    /\ ctorEnableFallback' = Upd(ctorEnableFallback, c, << >>)
    /\ gwFallback' = Upd(gwFallback, c, FALSE)
    /\ modelConfig' = Upd(modelConfig, c, ModelCfg(None, None))
    /\ options' = Upd(options, c, NoOptions)
    /\ config' = Upd(config, c, NoConfig)
    /\ primaryArgs' = Upd(primaryArgs, c, << >>)
    /\ fallbackArgs' = Upd(fallbackArgs, c, << >>)
    /\ primaryState' = Upd(primaryState, c, "notStarted")
    /\ fallbackState' = Upd(fallbackState, c, "notStarted")
    /\ primaryError' = Upd(primaryError, c, << >>)
    /\ fallbackError' = Upd(fallbackError, c, << >>)
    /\ classifications' = Upd(classifications, c, << >>)
    /\ branch' = Upd(branch, c, None)
    /\ outcome' = Upd(outcome, c, << >>)
    /\ resolved' = Upd(resolved, c, << >>)
    /\ providerCalls' = Upd(providerCalls, c, << >>)
    /\ onErrorCalls' = Upd(onErrorCalls, c, << >>)
    /\ gwCaught' = Upd(gwCaught, c, << >>)
    /\ gwOutcome' = Upd(gwOutcome, c, << >>)
    /\ UNCHANGED clsVars

(***************************************************************************)
(* Specifications.                                                         *)
(***************************************************************************)
\* no call is in progress in any slot of S
InitSlots(S) ==
    /\ pc = [c \in S |-> "idle"]
    /\ api = [c \in S |-> None]
    /\ ctorEnableFallback = [c \in S |-> << >>]
    /\ gwFallback = [c \in S |-> FALSE]
    /\ modelConfig = [c \in S |-> ModelCfg(None, None)]
    /\ options = [c \in S |-> NoOptions]
    /\ config = [c \in S |-> NoConfig]
    /\ primaryArgs = [c \in S |-> << >>]
    /\ fallbackArgs = [c \in S |-> << >>]
    /\ primaryState = [c \in S |-> "notStarted"]
    /\ fallbackState = [c \in S |-> "notStarted"]
    /\ primaryError = [c \in S |-> << >>]
    /\ fallbackError = [c \in S |-> << >>]
    /\ classifications = [c \in S |-> << >>]
    /\ branch = [c \in S |-> None]
    /\ outcome = [c \in S |-> << >>]
    /\ resolved = [c \in S |-> << >>]
    /\ providerCalls = [c \in S |-> << >>]
    /\ onErrorCalls = [c \in S |-> << >>]
    /\ gwCaught = [c \in S |-> << >>]
    /\ gwOutcome = [c \in S |-> << >>]

InitCalls == InitSlots(Calls)

\* the other harnesses and components are at rest
InitAuthIdle ==
    /\ authApiKey = << >>
    /\ authHeader = << >>
    /\ authPc = "idle"
    /\ authResult = << >>

\* lines 20-24: the fields of a new Neo4j client; no call in progress
InitNeoClient ==
    /\ driver = NoDriver
    /\ isConnected = FALSE
    /\ connectionAttempts = 0
    /\ neoTask = [t \in NeoTasks |-> IdleTask]

InitOthers ==
    /\ avgInput = << >>
    /\ avgResult = << >>
    /\ InitAuthIdle
    /\ InitNeoClient

\* calls of withFallback and of the gateway methods
Init ==
    /\ InitCalls
    /\ InitOthers
    /\ clsInput = PlainError(MsgBoom, "caller")
    /\ clsOutput = << >>
    /\ clsImmediate = << >>

Next ==
    \E c \in Calls :
        \/ \E cfg \in DirectConfigs : CallWithFallback(c, cfg)
        \/ \E a \in GatewayApis : \E mc \in ModelConfigs(a) :
             \E opts \in OptionsPool(a) : \E flag \in CtorFlags :
               GatewayCall(c, a, mc, opts, flag)
        \/ \E v \in Values("primary") : PrimarySucceeds(c, v)
        \/ \E e \in PrimaryFailures(c) : \E body \in JsonBodies : PrimaryFails(c, e, body)
        \/ \E v \in Values("fallback") : FallbackSucceeds(c, v)
        \/ \E e \in FallbackFailures(c) : \E body \in JsonBodies : FallbackFails(c, e, body)
        \/ \E v \in Values("primary") : DirectSucceeds(c, v)
        \/ \E e \in EnvErrors("primary") : \E body \in JsonBodies : DirectFails(c, e, body)
        \/ Return(c)

Spec == Init /\ [][Next]_vars

\* the pure functions of errorClassification.ts applied to every input
InitCls ==
    /\ InitCalls
    /\ InitOthers
    /\ clsInput \in ClassifierInputs
    /\ clsOutput = << >>
    /\ clsImmediate = << >>

NextCls ==
    \/ ClsClassify
    \/ ClsImmediate

SpecClassify == InitCls /\ [][NextCls]_vars

\* averageEmbeddings applied to every list of AvgInputs
InitAvg ==
    /\ InitCalls
    /\ clsInput = PlainError(MsgBoom, "caller")
    /\ clsOutput = << >>
    /\ clsImmediate = << >>
    /\ avgInput \in AvgInputs
    /\ avgResult = << >>
    /\ InitAuthIdle
    /\ InitNeoClient

NextAvg == AvgCall

SpecAverage == InitAvg /\ [][NextAvg]_vars

\* one request through apiKeyAuth for every API_KEY and header
InitAuth ==
    /\ InitCalls
    /\ clsInput = PlainError(MsgBoom, "caller")
    /\ clsOutput = << >>
    /\ clsImmediate = << >>
    /\ avgInput = << >>
    /\ avgResult = << >>
    /\ authApiKey \in AuthKeys
    /\ authHeader \in AuthHeaders
    /\ authPc = "idle"
    /\ authResult = << >>
    /\ InitNeoClient

NextAuth ==
    \/ AuthRequest
    \/ AuthNextReturns

SpecAuth == InitAuth /\ [][NextAuth]_vars

\* the Neo4j client under calls of connect, disconnect and executeQuery
\* from two tasks, in every interleaving of their steps
NextNeo4j ==
    \E t \in NeoTasks :
        \/ NeoCallConnect(t)
        \/ NeoServerInfoOk(t)
        \/ \E m \in InfoFailures : NeoServerInfoFails(t, m)
        \/ NeoBackoffDone(t)
        \/ NeoCallDisconnect(t)
        \/ NeoDriverCloseOk(t)
        \/ NeoDriverCloseFails(t)
        \/ \E retries \in RetriesOptions : NeoCallQuery(t, retries)
        \/ NeoAfterConnect(t)
        \/ NeoRunOk(t)
        \/ \E m \in RunFailures : NeoRunFails(t, m)
        \/ NeoDelayDone(t)
        \/ NeoSessionClosed(t)
        \/ NeoReturn(t)

SpecNeo4j == Init /\ [][NextNeo4j]_vars

\* two invocations in flight at once; each draws its call outcomes from
\* pools of its own, so that a value in a slot tells which invocation it
\* came from
ConcCalls == {1, 2}

ConcErrors(c, origin) ==
    IF c = 1
    THEN { ApiError(MsgBoom, 503, origin), PlainError(MsgApiKey, origin) }
    ELSE { ApiError(MsgBoom, 400, origin),
           Thrown("nullish", FALSE, "none", MsgEmpty, FALSE, NoResponse, origin) }

ConcValues(c, origin) ==
    { [data |-> IF c = 1 THEN "ok" ELSE "other", by |-> origin] }

ConcConfigs(c) ==
    { cfg \in DirectConfigs :
        cfg.primaryMaxRetries = c /\ cfg.fallbackMaxRetries = c - 1 }

ConcApi(c) == IF c = 1 THEN "embed" ELSE "generateText"

ConcModelConfigs(c) ==
    IF c = 1
    THEN { DEFAULT_MODELS.embedding.primary, ModelCfg("e2e", "custom-model") }
    ELSE { DEFAULT_MODELS.llm.primary, ModelCfg("anthropic", "custom-model") }

\* the errors the primary attempt of invocation c can fail with
ConcPrimaryErrors(c) ==
    ConcErrors(c, "primary")
    \cup { ThrownIn(Resolve(ConcApi(c), mc).error[1], "primary") :
             mc \in { x \in ConcModelConfigs(c) : Resolve(ConcApi(c), x).threw } }

InitConc ==
    /\ InitSlots(ConcCalls)
    /\ InitOthers
    /\ clsInput = PlainError(MsgBoom, "caller")
    /\ clsOutput = << >>
    /\ clsImmediate = << >>

NextConc ==
    \E c \in ConcCalls :
        \/ \E cfg \in ConcConfigs(c) : CallWithFallback(c, cfg)
        \/ \E mc \in ConcModelConfigs(c) : \E flag \in { << >>, << FALSE >> } :
             GatewayCall(c, ConcApi(c), mc, NoOptions, flag)
        \/ \E v \in ConcValues(c, "primary") : PrimarySucceeds(c, v)
        \/ \E e \in ConcPrimaryErrors(c) : \E body \in JsonBodies :
             PrimaryFails(c, e, body)
        \/ \E v \in ConcValues(c, "fallback") : FallbackSucceeds(c, v)
        \/ \E e \in ConcErrors(c, "fallback") : \E body \in JsonBodies :
             FallbackFails(c, e, body)
        \/ \E v \in ConcValues(c, "primary") : DirectSucceeds(c, v)
        \/ \E e \in ConcErrors(c, "primary") : \E body \in JsonBodies :
             DirectFails(c, e, body)
        \/ Return(c)

\* two concurrent invocations, every interleaving of their steps
SpecConc == InitConc /\ [][NextConc]_vars

(***************************************************************************)
(* Properties.                                                             *)
(***************************************************************************)
\* the call went through withFallback
UsesWithFallback(c) ==
    \/ api[c] = "withFallback"
    \/ api[c] \in GatewayApis /\ gwFallback[c]

\* the value is an object carrying a numeric HTTP response status
CarriesStatus(e) ==
    /\ e.type = "object" /\ e.hasResponse
    /\ e.response.truthy /\ e.response.statusIsNumber

\* errorClassification.ts:10-15, the five kinds of ErrorClassification
ErrorTypes == {"transient", "permanent", "rate_limit", "auth", "model_unavailable"}

\* the statuses the status rules name (lines 31-73)
ListedStatus(status) ==
    \/ status >= 500 /\ status <= 599
    \/ status \in {429, 401, 403, 400, 404}

\* the keyword groups of the message rules (lines 83-87, 98-101, 111-112,
\* 122), each on the lower-cased message
NetworkWords(m) ==
    \/ Includes(m, KwTimeout) \/ Includes(m, KwNetwork)
    \/ Includes(m, KwEconnreset) \/ Includes(m, KwConnection)

AuthWords(m) ==
    \/ Includes(m, KwApiKey) \/ Includes(m, KwUnauthorized)
    \/ Includes(m, KwAuthentication)

ModelWords(m) ==
    /\ Includes(m, KwModel)
    /\ (Includes(m, KwNotFound) \/ Includes(m, KwUnavailable))

RateWords(m) == Includes(m, KwRateLimit) \/ Includes(m, KwQuotaExceeded)

AnyWords(m) == NetworkWords(m) \/ AuthWords(m) \/ ModelWords(m) \/ RateWords(m)

\* C1: whenever the primary operation has failed under a FallbackConfig with
\* enableFallback = false, withFallback has thrown exactly the primary's error
\* object and the fallback operation has not been invoked.
C1_DisabledSurfacesPrimaryError ==
    \A c \in Calls :
        (UsesWithFallback(c) /\ primaryError[c] # << >> /\ ~config[c].enableFallback)
        => /\ pc[c] = "done"
           /\ outcome[c] = << Err(primaryError[c][1]) >>
           /\ outcome[c][1].error.origin = "primary"
           /\ fallbackArgs[c] = << >>
           /\ fallbackState[c] = "notStarted"

C1_Witness ==
    \E c \in Calls :
        /\ api[c] = "withFallback" /\ pc[c] = "done"
        /\ ~config[c].enableFallback
        /\ primaryError[c] # << >>
        /\ branch[c] = "fallbackDisabled"

\* C2: whenever both operations have failed, withFallback has thrown the
\* primary's error Ep, and the thrown value is not the fallback's error Ef.
C2_BothFailSurfacesPrimaryError ==
    \A c \in Calls :
        (primaryError[c] # << >> /\ fallbackError[c] # << >>)
        => /\ pc[c] = "done"
           /\ primaryError[c][1] # fallbackError[c][1]
           /\ outcome[c] = << Err(primaryError[c][1]) >>
           /\ outcome[c][1].error # fallbackError[c][1]

C2_Witness ==
    \E c \in Calls :
        /\ pc[c] = "done" /\ branch[c] = "bothFailed" /\ config[c].enableFallback
        /\ primaryError[c] = << ApiError(MsgBoom, 503, "primary") >>
        /\ fallbackError[c] = << PlainError(MsgApiKey, "fallback") >>
        /\ outcome[c][1].kind = "error"

\* C3: whenever the fallback operation has succeeded, the policy is enabled,
\* the primary had failed and withFallback has returned the fallback's value;
\* and a primary failure with HTTP status 503 under an enabled policy has been
\* classified transient with shouldFallback = true and the fallback invoked.
C3_FallbackValueReturned ==
    \A c \in Calls :
        /\ fallbackState[c] = "fulfilled"
           => /\ config[c].enableFallback
              /\ primaryError[c] # << >>
              /\ pc[c] = "done"
              /\ outcome[c] # << >>
              /\ outcome[c][1].kind = "ok"
              /\ outcome[c][1].value \in Values("fallback")
        /\ ( /\ UsesWithFallback(c) /\ config[c].enableFallback
             /\ primaryError[c] # << >>
             /\ CarriesStatus(primaryError[c][1])
             /\ primaryError[c][1].response.status = 503 )
           => /\ classifications[c][1].errorType = "transient"
              /\ classifications[c][1].shouldFallback
              /\ Len(fallbackArgs[c]) = 1
              /\ fallbackState[c] # "notStarted"

C3_Witness ==
    \E c \in Calls :
        /\ pc[c] = "done" /\ config[c].enableFallback
        /\ primaryError[c] = << ApiError(MsgBoom, 503, "primary") >>
        /\ fallbackState[c] = "fulfilled"
        /\ outcome[c] = << Ok([data |-> "ok", by |-> "fallback"]) >>

\* C4: whenever the primary operation has succeeded, withFallback has returned
\* the primary's value, the fallback operation has not been invoked and
\* classifyError has not been called, with enableFallback true or false.
C4_PrimarySuccessReturnsAtOnce ==
    \A c \in Calls :
        primaryState[c] = "fulfilled"
        => /\ pc[c] = "done"
           /\ outcome[c] # << >>
           /\ outcome[c][1].kind = "ok"
           /\ outcome[c][1].value \in Values("primary")
           /\ fallbackArgs[c] = << >>
           /\ fallbackState[c] = "notStarted"
           /\ classifications[c] = << >>

C4_Witness ==
    \E c \in Calls :
        /\ api[c] = "withFallback" /\ pc[c] = "done"
        /\ config[c].enableFallback
        /\ primaryState[c] = "fulfilled"
        /\ branch[c] = "primaryOk"

\* C5: a finished withFallback invocation has failed if and only if the primary
\* failed and either enableFallback is false or the fallback failed too; and
\* under enableFallback = true every primary failure has led to one fallback
\* attempt.
C5_FailureIffDisabledOrBothFailed ==
    \A c \in Calls :
        /\ (UsesWithFallback(c) /\ pc[c] = "done")
           => /\ outcome[c] # << >>
              /\ (outcome[c][1].kind = "error")
                 <=> /\ primaryError[c] # << >>
                     /\ (~config[c].enableFallback \/ fallbackError[c] # << >>)
        /\ (UsesWithFallback(c) /\ primaryError[c] # << >> /\ config[c].enableFallback)
           => /\ Len(fallbackArgs[c]) = 1
              /\ fallbackState[c] # "notStarted"

C5_Witness ==
    \E c \in Calls :
        /\ pc[c] = "done" /\ config[c].enableFallback
        /\ primaryError[c] = << ApiError(MsgBoom, 400, "primary") >>
        /\ fallbackError[c] # << >>
        /\ outcome[c][1].kind = "error"

C7_FallbackOnlyAfterPrimaryFailure ==
    \A c \in Calls :
        /\ fallbackState[c] # "notStarted" => primaryState[c] = "rejected"
        /\ ~ ( /\ primaryState[c] \in {"inFlight", "threw"}
               /\ fallbackState[c] \in {"inFlight", "threw"} )

C7_Witness ==
    \E c \in Calls :
        /\ pc[c] = "fallback"
        /\ fallbackState[c] = "inFlight"
        /\ primaryState[c] = "rejected"

\* C8: whenever the registry throws while resolving the model of a gateway
\* call (a provider without embedding support, an unknown provider), the
\* fallback closure is not invoked, nothing further is resolved and no
\* provider call is issued.
C8_ConfigurationErrorNeverFallsBack ==
    \A c \in Calls :
        (api[c] \in GatewayApis /\ Resolve(api[c], modelConfig[c]).threw)
        => /\ fallbackArgs[c] = << >>
           /\ Len(resolved[c]) = 1
           /\ providerCalls[c] = << >>

\* C9: classifyError maps a value carrying a numeric HTTP response status:
\* 500..599 to transient, 429 to rate_limit, 401 and 403 to auth, 400 to
\* permanent, 404 to model_unavailable, each with shouldFallback = true,
\* whatever the message of the value.
C9_StatusDecidesClassification ==
    (clsOutput # << >> /\ CarriesStatus(clsInput))
    => LET status == clsInput.response.status
           k == clsOutput[1]
       IN  /\ (status >= 500 /\ status <= 599)
              => (k.errorType = "transient" /\ k.shouldFallback)
           /\ status = 429 => (k.errorType = "rate_limit" /\ k.shouldFallback)
           /\ status \in {401, 403} => (k.errorType = "auth" /\ k.shouldFallback)
           /\ status = 400 => (k.errorType = "permanent" /\ k.shouldFallback)
           /\ status = 404 => (k.errorType = "model_unavailable" /\ k.shouldFallback)

C9_Witness ==
    /\ clsInput = ApiError(MsgRateLimit, 401, "caller")
    /\ clsOutput # << >>
    /\ clsOutput[1].errorType = "auth"

\* C10: every classification classifyError has returned to withFallback has
\* shouldFallback = true, and withFallback never leaves by the throw for a
\* classification that forbids fallback.
C10_NotEligibleBranchUnreachable ==
    \A c \in Calls :
        /\ branch[c] # "notEligible"
        /\ \A i \in 1..Len(classifications[c]) : classifications[c][i].shouldFallback

C10_Witness ==
    \E c \in Calls :
        /\ pc[c] = "done" /\ config[c].enableFallback
        /\ Len(classifications[c]) = 2
        /\ classifications[c][1].errorType = "permanent"
        /\ classifications[c][2].errorType = "transient"
        /\ fallbackError[c][1].type = "nullish"

\* C11: classifyError returns one of the five kinds, and never throws, for
\* every value: null or undefined, a primitive, an object without a
\* response, an object whose response is missing or has no numeric status,
\* an Error with any message; a value no status rule and no message rule
\* matches is classified transient with shouldFallback = true.
C11_ClassifyIsTotal ==
    clsOutput # << >>
    => LET k == clsOutput[1] IN
       /\ k.errorType \in ErrorTypes
       /\ k.shouldFallback \in BOOLEAN
       /\ ( /\ ~(CarriesStatus(clsInput) /\ ListedStatus(clsInput.response.status))
            /\ ~(clsInput.isError /\ AnyWords(ToLowerCase(clsInput.message))) )
          => (k.errorType = "transient" /\ k.shouldFallback)

C11_Witness ==
    /\ clsOutput = << DefaultClassification >>
    /\ clsInput.type = "object" /\ ~clsInput.isError
    /\ clsInput.hasResponse /\ ~clsInput.response.truthy

\* C12: an Error that carries no numeric HTTP status is classified by its
\* lower-cased message, by substring, in this order: a network, timeout,
\* econnreset or connection word gives transient; else an api key,
\* unauthorized or authentication word gives auth; else "model" together
\* with "not found" or "unavailable" gives model_unavailable; else "rate
\* limit" or "quota exceeded" gives rate_limit. A message matching several
\* groups gets the kind of the first.
C12_MessageRulesInPriorityOrder ==
    (clsOutput # << >> /\ clsInput.isError /\ ~CarriesStatus(clsInput))
    => LET m == ToLowerCase(clsInput.message)
           k == clsOutput[1].errorType
       IN  IF NetworkWords(m) THEN k = "transient"
           ELSE IF AuthWords(m) THEN k = "auth"
           ELSE IF ModelWords(m) THEN k = "model_unavailable"
           ELSE IF RateWords(m) THEN k = "rate_limit"
           ELSE TRUE

C12_Witness ==
    /\ clsInput = PlainError(MsgUnauthRate, "caller")
    /\ AuthWords(ToLowerCase(clsInput.message))
    /\ RateWords(ToLowerCase(clsInput.message))
    /\ clsOutput # << >>
    /\ clsOutput[1].errorType = "auth"

\* C13 as stated: a value carrying a numeric status that no status rule
\* names (402, 418) is classified by the default rule, transient, whatever
\* its message.
C13_UnlistedStatusIsDefault ==
    ( /\ clsOutput # << >>
      /\ CarriesStatus(clsInput)
      /\ ~ListedStatus(clsInput.response.status) )
    => clsOutput[1] = DefaultClassification

\* C13 amended: a value carrying a numeric status that no status rule names
\* falls through to the message rules: an Error among them is classified
\* exactly as the same Error without a response would be, and only a value
\* that is not an Error, or whose message matches no keyword group, gets
\* the default classification.
C13_UnlistedStatusFallsThrough ==
    ( /\ clsOutput # << >>
      /\ CarriesStatus(clsInput)
      /\ ~ListedStatus(clsInput.response.status) )
    => /\ clsInput.isError
          => clsOutput[1] = classifyError(PlainError(clsInput.message, "caller"))
       /\ (clsOutput[1] = DefaultClassification)
          <=> ~(clsInput.isError /\ AnyWords(ToLowerCase(clsInput.message)))

C13_Witness ==
    /\ clsInput = ApiError(MsgApiKey, 402, "caller")
    /\ clsOutput # << >>
    /\ clsOutput[1].errorType = "auth"

\* C14: an embedding call whose ModelConfig names e2e fails in the
\* registry: at the moment the primary attempt has thrown, no provider call
\* has been issued, the error is the registry's, and no provider call of
\* the invocation is ever addressed to e2e.
C14_E2EEmbeddingFailsBeforeAnyCall ==
    \A c \in Calls :
        (api[c] \in EmbeddingApis /\ modelConfig[c].provider = "e2e")
        => /\ pc[c] = "primary"
              => (primaryState[c] = "threw" /\ providerCalls[c] = << >>)
           /\ primaryError[c] # << >>
              => primaryError[c][1] = PlainError(MsgE2ENoEmbedding, "primary")
           /\ ~gwFallback[c]
              => /\ pc[c] = "done" /\ providerCalls[c] = << >>
                 /\ gwCaught[c] = << PlainError(MsgE2ENoEmbedding, "primary") >>
           /\ \A i \in 1..Len(providerCalls[c]) :
                 providerCalls[c][i].model.provider # "e2e"

C14_Witness ==
    \E c \in Calls :
        /\ api[c] = "embed" /\ modelConfig[c].provider = "e2e"
        /\ pc[c] = "primary" /\ primaryState[c] = "threw"
        /\ providerCalls[c] = << >>

\* C15: an embedding call naming a provider the registry has no embedding
\* model for (e2e) fails with an error of the configuration class, not of
\* the provider-error class, and the failure is neither classified nor
\* followed by a fallback attempt.
C15_UnsupportedProviderIsConfigurationError ==
    \A c \in Calls :
        (api[c] \in EmbeddingApis /\ modelConfig[c].provider = "e2e")
        => /\ classifications[c] = << >>
           /\ fallbackArgs[c] = << >>
           /\ pc[c] = "done"
              => /\ gwOutcome[c][1].kind = "error"
                 /\ gwOutcome[c][1].error.cls = ConfigurationErrorCls("embedding")

\* the value is an error of the gateway's own classes for family fam
IsGatewayError(e, fam) ==
    /\ e.type = "object" /\ e.isError
    /\ e.cls \in {ProviderErrorCls(fam), ConfigurationErrorCls(fam)}

\* the error E the gateway surfaced for the caught value e: e itself, or a
\* wrapper with e as its cause
Surfaces(E, e, fam) ==
    IF IsGatewayError(e, fam) THEN E = e ELSE E.cause = << e >>

\* C16: a gateway constructed without enableFallback has the fallback
\* enabled. For every method of a gateway constructed with enableFallback =
\* false: only the ModelConfig of the call is resolved, the fallback
\* operation is never invoked, at most one provider call is issued, and a
\* failure surfaces the error of the primary attempt.
C16_FallbackDefaultOnAndDisabledSkipsFallback ==
    \A c \in Calls :
        api[c] \in GatewayApis
        => /\ ctorEnableFallback[c] = << >> => gwFallback[c]
           /\ ctorEnableFallback[c] = << TRUE >> => gwFallback[c]
           /\ ctorEnableFallback[c] = << FALSE >>
              => /\ ~gwFallback[c]
                 /\ resolved[c] = << modelConfig[c] >>
                 /\ fallbackArgs[c] = << >> /\ fallbackState[c] = "notStarted"
                 /\ Len(providerCalls[c]) <= 1
                 /\ (pc[c] = "done" /\ gwOutcome[c][1].kind = "error")
                    => /\ gwCaught[c][1].origin = "primary"
                       /\ Surfaces(gwOutcome[c][1].error, gwCaught[c][1],
                                   Family(api[c]))

C16_Witness ==
    \E c \in Calls :
        /\ api[c] = "streamObject" /\ ctorEnableFallback[c] = << FALSE >>
        /\ modelConfig[c] # DEFAULT_MODELS.llm.primary
        /\ pc[c] = "done" /\ gwOutcome[c][1].kind = "error"
        /\ Len(providerCalls[c]) = 1
        /\ gwOutcome[c][1].error.cause = << ApiError(MsgBoom, 429, "primary") >>

\* C17: a gateway call that fails throws one error. The value its catch
\* block caught is the error of the primary attempt, also after a fallback
\* attempt that failed. If that value is already a provider or
\* configuration error of the gateway it is thrown as it is; otherwise the
\* error thrown is a provider error of the gateway with a message, the
\* provider of the call's ModelConfig and the caught value as its cause.
C17_OneErrorWithProviderAndCause ==
    \A c \in Calls :
        (api[c] \in GatewayApis /\ pc[c] = "done" /\ gwOutcome[c][1].kind = "error")
        => LET E == gwOutcome[c][1].error
               e == gwCaught[c][1]
               fam == Family(api[c])
           IN  /\ Len(gwOutcome[c]) = 1 /\ Len(gwCaught[c]) = 1
               /\ e.origin = "primary"
               /\ gwFallback[c] => e = primaryError[c][1]
               /\ IF IsGatewayError(e, fam)
                  THEN E = e
                  ELSE /\ E.cls = ProviderErrorCls(fam)
                       /\ E.origin = "gateway"
                       /\ E.message.tmpl # ""
                       /\ E.message.provider = modelConfig[c].provider
                       /\ E.provider = modelConfig[c].provider
                       /\ E.cause = << e >>

C17_Witness ==
    \E c \in Calls :
        /\ api[c] = "generateText" /\ pc[c] = "done" /\ branch[c] = "bothFailed"
        /\ modelConfig[c].provider = "anthropic"
        /\ primaryError[c] = << ApiError(MsgBoom, 429, "primary") >>
        /\ fallbackError[c] = << ApiError(MsgBoom, 503, "fallback") >>
        /\ gwOutcome[c][1].kind = "error"
        /\ gwOutcome[c][1].error.provider = "anthropic"
        /\ gwOutcome[c][1].error.cause = primaryError[c]

\* C18 as stated: once the fallback operation of a streaming call with an
\* onError callback has been started, the callback has been invoked.
C18_OnErrorBeforeFallbackStarts ==
    \A c \in Calls :
        ( /\ api[c] \in GatewayApis /\ IsStream(api[c]) /\ options[c].onError
          /\ fallbackArgs[c] # << >> )
        => onErrorCalls[c] # << >>

\* C18 amended: a streaming method invokes options.onError in its catch
\* block only: exactly once, exactly when the method ends in an error, with
\* the caught value (or "Unknown streaming error" for a value that is not an
\* Error). With the fallback enabled that is after the primary failure was
\* classified and the fallback operation was started and has failed; while
\* the fallback operation is pending, and when it succeeds, the callback
\* has not been invoked.
C18_OnErrorOnlyAfterFallbackFailed ==
    \A c \in Calls :
        (api[c] \in GatewayApis /\ IsStream(api[c]) /\ options[c].onError)
        => /\ onErrorCalls[c] # << >>
              <=> (pc[c] = "done" /\ gwOutcome[c][1].kind = "error")
           /\ onErrorCalls[c] # << >>
              => /\ onErrorCalls[c] = << OnErrorArg(gwCaught[c][1]) >>
                 /\ gwFallback[c]
                    => /\ branch[c] = "bothFailed"
                       /\ Len(classifications[c]) = 2
                       /\ fallbackArgs[c] # << >>
                       /\ fallbackState[c] = "rejected"

C18_Witness ==
    \E c \in Calls :
        /\ api[c] = "streamText" /\ options[c].onError /\ gwFallback[c]
        /\ pc[c] = "done" /\ branch[c] = "bothFailed"
        /\ fallbackError[c] = << ApiError(MsgBoom, 503, "fallback") >>
        /\ onErrorCalls[c] = << [error |-> PlainError(MsgConnTimeout, "primary")] >>

\* C19: whatever ModelConfig a gateway method is called with, its fallback
\* closure resolves DEFAULT_MODELS.<family>.fallback and, for options
\* without a model key, calls the provider with that model; the ModelConfig
\* of the call is what the primary closure resolves and calls.
C19_FallbackTargetsDefaultFallbackModel ==
    \A c \in Calls :
        (api[c] \in GatewayApis /\ resolved[c] # << >>)
        => LET fam == Family(api[c])
               target == DEFAULT_MODELS[fam].fallback
               n == Len(providerCalls[c])
           IN  /\ resolved[c][1] = modelConfig[c]
               /\ ( /\ ~Resolve(api[c], modelConfig[c]).threw
                    /\ n >= 1 /\ options[c].model = << >> )
                  => /\ providerCalls[c][1].model.provider = modelConfig[c].provider
                     /\ providerCalls[c][1].model.modelId = modelConfig[c].modelId
               /\ fallbackArgs[c] # << >>
                  => /\ resolved[c] = << modelConfig[c], target >>
                     /\ n >= 1
                     /\ options[c].model = << >>
                        => /\ providerCalls[c][n].model.provider = target.provider
                           /\ providerCalls[c][n].model.modelId = target.modelId

C19_Witness ==
    \E c \in Calls :
        /\ api[c] = "generateObject"
        /\ modelConfig[c] = ModelCfg("anthropic", "custom-model")
        /\ options[c].model = << >>
        /\ pc[c] = "fallback" /\ Len(providerCalls[c]) = 2
        /\ providerCalls[c][1].model.provider = "anthropic"
        /\ providerCalls[c][2].model.modelId = "meta-llama/Meta-Llama-3.1-70B-Instruct"

\* everything a call slot holds
CallState(c) ==
    << pc[c], api[c], ctorEnableFallback[c], gwFallback[c], modelConfig[c],
       config[c], primaryArgs[c], fallbackArgs[c], primaryState[c],
       fallbackState[c], primaryError[c], fallbackError[c], classifications[c],
       branch[c], outcome[c], resolved[c], providerCalls[c], options[c],
       onErrorCalls[c], gwCaught[c], gwOutcome[c] >>

\* C20: with two invocations in flight, in every interleaving: a step of
\* one invocation leaves everything the other holds unchanged; each
\* invocation holds only errors and values of its own primary and fallback
\* calls; its fallback operation has been invoked exactly if its own
\* primary failed with its own fallback enabled; and what it returns or
\* throws is the value of its own primary call, else the value of its own
\* fallback call, else its own primary error.
C20_ConcurrentInvocationsIndependent ==
    /\ [](\A c \in ConcCalls :
            LET failed == primaryError[c] # << >>
                gateway == api[c] \in GatewayApis
            IN  /\ failed => primaryError[c][1] \in ConcPrimaryErrors(c)
                /\ fallbackError[c] # << >>
                   => fallbackError[c][1] \in ConcErrors(c, "fallback")
                /\ fallbackArgs[c] # << >> <=> (failed /\ config[c].enableFallback)
                /\ outcome[c] # << >>
                   => IF ~failed
                      THEN /\ outcome[c][1].kind = "ok"
                           /\ outcome[c][1].value \in ConcValues(c, "primary")
                      ELSE IF config[c].enableFallback /\ fallbackError[c] = << >>
                      THEN /\ outcome[c][1].kind = "ok"
                           /\ outcome[c][1].value \in ConcValues(c, "fallback")
                      ELSE outcome[c][1] = Err(primaryError[c][1])
                /\ (gateway /\ gwOutcome[c] # << >>)
                   => IF gwOutcome[c][1].kind = "ok"
                      THEN gwOutcome[c][1].value
                             \in ConcValues(c, "primary") \cup ConcValues(c, "fallback")
                      ELSE /\ gwCaught[c][1] \in ConcPrimaryErrors(c)
                           /\ gwOutcome[c][1].error.cause = gwCaught[c]
                           /\ gwOutcome[c][1].error.provider = modelConfig[c].provider
                /\ (gateway /\ gwOutcome[c] # << >> /\ gwFallback[c])
                   => gwOutcome[c][1].kind = outcome[c][1].kind)
    /\ [][\A c, d \in ConcCalls :
            (c # d /\ CallState(c)' # CallState(c))
            => CallState(d)' = CallState(d)]_vars

C20_Witness ==
    /\ pc[1] = "fallback" /\ pc[2] = "fallback"
    /\ api[1] = "embed" /\ api[2] = "withFallback"
    /\ primaryError[1] = << PlainError(MsgE2ENoEmbedding, "primary") >>
    /\ primaryError[2] = << ApiError(MsgBoom, 400, "primary") >>

\* the vectors hold integers only and have the length of the first
IntegerVectors(embeddings) ==
    \A k \in 1..Len(embeddings) :
        /\ Len(embeddings[k]) = Len(embeddings[1])
        /\ \A i \in 1..Len(embeddings[k]) :
              ~embeddings[k][i].nan /\ embeddings[k][i].den = 1

\* C21 as stated: averageEmbeddings([[1,2],[3,4]]) returns [2,2].
C21_AverageOfExampleIsTwoTwo ==
    ( /\ avgResult # << >>
      /\ avgInput = << << Num(1), Num(2) >>, << Num(3), Num(4) >> >> )
    => avgResult[1].value = << << Num(2), Num(2) >> >>

\* C21 amended: averageEmbeddings([[1,2],[3,4]]) returns [2,3], the
\* element-wise mean (1+3)/2, (2+4)/2, and does not throw.
C21_AverageOfExampleIsTwoThree ==
    ( /\ avgResult # << >>
      /\ avgInput = << << Num(1), Num(2) >>, << Num(3), Num(4) >> >> )
    => /\ ~avgResult[1].threw
       /\ avgResult[1].value = << << Num(2), Num(3) >> >>

C21_Witness ==
    /\ avgInput = << << Num(1), Num(2) >>, << Num(3), Num(4) >> >>
    /\ avgResult # << >>
    /\ avgResult[1].value[1][2] = Num(3)

\* C22: a call of averageEmbeddings on N >= 1 integer vectors of one length
\* whose column sums are multiples of N returns a vector of that length
\* whose i-th element is the integer sum of the i-th elements divided by N,
\* and leaves the argument as it was.
C22_AverageIsColumnSumOverN ==
    [][ ( /\ avgResult = << >> /\ avgResult' # << >>
          /\ Len(avgInput) >= 1
          /\ IntegerVectors(avgInput)
          /\ \A i \in 1..Len(avgInput[1]) :
                ColumnSum(avgInput, i, Len(avgInput)) % Len(avgInput) = 0 )
        => /\ avgInput' = avgInput
           /\ ~avgResult'[1].threw
           /\ Len(avgResult'[1].value[1]) = Len(avgInput[1])
           /\ \A i \in 1..Len(avgInput[1]) :
                 /\ avgResult'[1].value[1][i].den = 1
                 /\ ~avgResult'[1].value[1][i].nan
                 /\ avgResult'[1].value[1][i].num * Len(avgInput)
                      = ColumnSum(avgInput, i, Len(avgInput)) ]_vars

C22_Witness ==
    /\ avgInput = << << Num(1), Num(2) >>, << Num(2), Num(2) >>, << Num(3), Num(2) >> >>
    /\ avgResult # << >>
    /\ avgResult[1].value = << << Num(2), Num(2) >> >>

\* C23: averageEmbeddings given no vector, or a vector whose length
\* differs from the first's at any position of the list, returns nothing and
\* throws an error of the configuration class of the embedding gateway.
C23_BadInputIsConfigurationError ==
    ( /\ avgResult # << >>
      /\ \/ Len(avgInput) = 0
         \/ \E k \in 1..Len(avgInput) : Len(avgInput[k]) # Len(avgInput[1]) )
    => /\ avgResult[1].threw
       /\ avgResult[1].value = << >>
       /\ avgResult[1].error[1].cls = ConfigurationErrorCls("embedding")

\* C24: shouldFallbackImmediately(error) is true exactly when
\* classifyError(error) has kind auth, rate_limit, permanent or
\* model_unavailable, and false exactly when the kind is transient.
C24_ImmediateIffNotTransient ==
    (clsImmediate # << >> /\ clsOutput # << >>)
    => LET k == clsOutput[1].errorType IN
       /\ clsImmediate[1] = TRUE
          <=> k \in {"auth", "rate_limit", "permanent", "model_unavailable"}
       /\ clsImmediate[1] = FALSE <=> k = "transient"

C24_Witness ==
    /\ clsInput = ApiError(MsgConnTimeout, 400, "caller")
    /\ clsOutput # << >> /\ clsOutput[1].errorType = "permanent"
    /\ clsImmediate = << TRUE >>

\* C25: apiKeyAuth reaches next() only if API_KEY is set and the
\* Authorization header is exactly "Bearer " followed by API_KEY; with
\* API_KEY unset it throws 500 whatever the header; every other request is
\* answered 401 and next() is not reached.
C25_OnlyBearerApiKeyPasses ==
    authResult # << >>
    => LET configured == authApiKey # << >> /\ authApiKey[1] # << >>
           r == authResult[1]
       IN  /\ r.kind = "next"
              => /\ configured
                 /\ authHeader = << StrBearer \o <<" ">> \o authApiKey[1] >>
           /\ ~configured => (r.kind = "throw" /\ r.status = 500)
           /\ (configured /\ r.kind # "next")
              => (r.kind = "throw" /\ r.status = 401 /\ authPc = "done")

\* C26: whatever options object a gateway method is given, every provider
\* call made by its primary or fallback closure carries the model handle the
\* closure resolved from the registry and the maxRetries the orchestrator
\* invoked the closure with.
C26_ProviderCallUsesResolvedModelAndBudget ==
    \A c \in Calls :
        (api[c] \in GatewayApis /\ gwFallback[c])
        => LET primaryModel == Resolve(api[c], modelConfig[c])
               fallbackModel == Resolve(api[c], FallbackTarget(api[c]))
               n == Len(providerCalls[c])
           IN  /\ (~primaryModel.threw /\ n >= 1)
                  => /\ providerCalls[c][1].model = primaryModel.handle[1]
                     /\ providerCalls[c][1].maxRetries = primaryArgs[c][1]
               /\ (fallbackArgs[c] # << >> /\ n >= 1)
                  => /\ providerCalls[c][n].model = fallbackModel.handle[1]
                     /\ providerCalls[c][n].maxRetries = fallbackArgs[c][1]

(***************************************************************************)
(* Neo4j client: connect, executeQuery and disconnect.                     *)
(***************************************************************************)
ConnectGaveUp(t) ==
    /\ neoTask[t].kind = "connect"
    /\ neoTask[t].pc = "done"
    /\ neoTask[t].result[1].kind = "error"

\* C27: a connect() call that ends by throwing has made exactly maxRetries (3)
\* attempts and throws "Failed to connect to Neo4j after 3 attempts", whatever
\* calls came before it.
C27_ConnectGivesUpAfterMaxRetries ==
    \A t \in NeoTasks :
        ConnectGaveUp(t) =>
            /\ neoTask[t].attemptsMade = Neo4jMaxRetries
            /\ neoTask[t].result[1] = ConnectFailed("unreachable")

QueryTask(t) == neoTask[t].kind = "query"

\* the n of options.retries = n, or the 2 that stands for no option
RequestedRetries(t) ==
    IF neoTask[t].retries = << >> THEN DefaultQueryRetries ELSE neoTask[t].retries[1]

\* C28: executeQuery with options.retries = n (n >= 0) runs the query at most
\* n + 1 times, at most 3 times with no option; a "Query failed" error names
\* n + 1 attempts; "this should not be reached" is never thrown.
C28_QueryRunsAtMostRetriesPlusOne ==
    \A t \in NeoTasks :
        QueryTask(t) =>
            /\ neoTask[t].runs <= RequestedRetries(t) + 1
            /\ neoTask[t].pc = "done" =>
                 /\ neoTask[t].result[1] # NotReached
                 /\ neoTask[t].result[1].tmpl = QueryFailed(0, "").tmpl =>
                      neoTask[t].result[1].n = RequestedRetries(t) + 1

\* C29: in every reachable state of the client, isConnected = true implies
\* driver is not null.
C29_ConnectedImpliesDriver ==
    isConnected => driver # NoDriver

\* sessions of task t that are open
OpenSessions(t) ==
    neoTask[t].leaked + (IF neoTask[t].session = "open" THEN 1 ELSE 0)

\* C30: an executeQuery call never holds more than one open session, opens the
\* session of an attempt only when the session of the attempt before is
\* closed, and has no open session when it returns or throws.
C30_SessionsClosed ==
    \A t \in NeoTasks :
        /\ OpenSessions(t) <= 1
        /\ neoTask[t].leaked = 0
        /\ neoTask[t].pc = "done" => OpenSessions(t) = 0

\* a call that failed twice, held one session at a time, and has thrown with
\* its last session closed
C30_Witness ==
    \E t \in NeoTasks :
        /\ QueryTask(t)
        /\ neoTask[t].pc = "done"
        /\ neoTask[t].runs >= 2
        /\ neoTask[t].result[1].kind = "error"
        /\ neoTask[t].session = "closed"


=============================================================================
